---- MODULE Spec2Model ----
(***************************************************************************)
(* Model of pyama's image stack (src/src/stack.py): class Stack with its    *)
(* image lock and ROI lock, load / close / _clear_state, the two metadata   *)
(* dialect parsers, convert_position, the pixel reads, the ROI map and the  *)
(* listener notifications.                                                  *)
(* Of the main window (src/src/main_window.py): the traces and the display  *)
(* attributes of their ROIs, the channel buttons, the dialog StackOpener    *)
(* and its callback open_metastack.                                         *)
(*                                                                          *)
(* Optional Python values (x or None) are encoded as sequences: None is     *)
(* <<>> and a present value v is <<v>>.                                     *)
(***************************************************************************)
EXTENDS Integers, Sequences, FiniteSets, TLC

VARIABLES
    path, img, tmpfile,                 \* Stack._path, Stack.img, Stack._tmpfile
    mode, order, width, height,         \* Stack._mode, _order, _width, _height
    n_images, n_frames, n_channels,     \* Stack._n_images, _n_frames, _n_channels
    rois, info,                         \* Stack._rois, Stack._info
    image_lock, roi_lock,               \* the two reentrant locks
    listeners, next_lid,                \* the listener registry
    bufs,                               \* the mapped buffers that are alive
    tmp_open, tmp_made,                 \* open temporary files, number created
    th,                                 \* per thread: position and locals
    budget,                             \* operations that may still be started
    traces, tk_rois,                    \* Main_Tk.traces, Main_Tk.rois
    var_show_roi_contours,              \* Main_Tk.var_show_roi_contours
    var_show_untrackable,               \* Main_Tk.var_show_untrackable
    i_frame,                            \* Main_Tk.stackviewer.i_frame
    hl_changed,                         \* traces whose 'highlight' was assigned
    tk_ret,                             \* what the last Main_Tk call returned
    channel_selection, channel_order,   \* Main_Tk.channel_selection, channel_order
    tk_err,                             \* error the last channel handler ended with
    op_stacks, op_channels,             \* StackOpener.stacks, StackOpener.channels
    op_sel,                             \* selected row of StackOpener.stack_list
    op_cb,                              \* what StackOpener gave to its callback
    stack_closes                        \* per Stack of the dialog: calls of close()

engineVars == <<path, img, tmpfile, mode, order, width, height, n_images,
                n_frames, n_channels, rois, info, image_lock, roi_lock,
                listeners, next_lid, bufs, tmp_open, tmp_made, th, budget>>

tkVars == <<traces, tk_rois, var_show_roi_contours, var_show_untrackable,
            i_frame, hl_changed, tk_ret>>

chanVars == <<channel_selection, channel_order, tk_err>>

openerVars == <<op_stacks, op_channels, op_sel, op_cb, stack_closes>>

winVars == <<tkVars, chanVars, openerVars>>

vars == <<engineVars, winVars>>

stackVars == <<path, img, tmpfile, mode, order, width, height, n_images,
               n_frames, n_channels>>

-----------------------------------------------------------------------------
(* Bounds of the model *)

MaxPages == 4
MaxDim == 2
MaxOps == 4
MaxLoadOps == 2
MaxRoiOps == 5
MaxMetaData == 2
MaxOpsMT == 3
MaxListeners == 2
MaxConvC == 3
MaxConvF == 5

-----------------------------------------------------------------------------
(* Python values *)

None == <<>>
Some(v) == <<v>>
Val(o) == o[1]

Ret(v) == [tag |-> "ret", val |-> v]
Raise(e) == [tag |-> "raise", val |-> e]

-----------------------------------------------------------------------------
(* Stack.convert_position *)

\* A slip: the channel-major branch divides by the number of channels
ConvertPositionCTByChannels(nc, nf, to2, channel, frame, image) ==
    IF to2
    THEN IF nc = 0 THEN Raise("ZeroDivisionError")
         ELSE Ret(<<image \div nc, image % nc>>)
    ELSE Ret(channel * nf + frame)

ConvertPositionCT(nc, nf, to2, channel, frame, image) ==
    IF to2
    THEN IF nf = 0 THEN Raise("ZeroDivisionError")
         ELSE Ret(<<image \div nf, image % nf>>)
    ELSE Ret(channel * nf + frame)

\* A slip: the frame-major branch strides by the number of frames
ConvertPositionTCByFrames(nc, nf, to2, channel, frame, image) ==
    IF to2
    THEN IF nc = 0 THEN Raise("ZeroDivisionError")
         ELSE Ret(<<image % nc, image \div nc>>)
    ELSE Ret(frame * nf + channel)

ConvertPositionTC(nc, nf, to2, channel, frame, image) ==
    IF to2
    THEN IF nc = 0 THEN Raise("ZeroDivisionError")
         ELSE Ret(<<image % nc, image \div nc>>)
    ELSE Ret(frame * nc + channel)

\* channel, frame, image are optional integers; the result is Ret(None),
\* Ret(<<channel, frame>>), Ret(image) or a raised exception.
ConvertPosition(ord, nc, nf, channel, frame, image) ==
    LET to2 == channel = None /\ frame = None
    IN  IF channel = None /\ frame = None /\ image = None THEN Ret(None)
        ELSE IF ~to2 /\ (channel = None \/ frame = None) THEN Ret(None)
        ELSE IF ord = None THEN Ret(None)
        ELSE LET c == IF to2 THEN 0 ELSE Val(channel)
                 f == IF to2 THEN 0 ELSE Val(frame)
                 i == IF to2 THEN Val(image) ELSE 0
             IN  IF ord = Some("tc") THEN ConvertPositionTC(nc, nf, to2, c, f, i)
                 ELSE IF ord = Some("ct") THEN ConvertPositionCT(nc, nf, to2, c, f, i)
                 ELSE Raise("NotImplementedError")

-----------------------------------------------------------------------------
(* Metadata parsers.  A parser writes the Stack fields one after the other   *)
(* and may raise in between; its result names the exception (or None) and,   *)
(* for each of order / n_frames / n_channels, the value written before the   *)
(* parser returned or raised (None: the field was not written).              *)

Parsed(e, o, f, c) == [err |-> e, order |-> o, n_frames |-> f, n_channels |-> c]

\* re.search(r"<key>=(\d+)", desc) followed by int(m.group(1)): the number
\* of the first match, or None without a match.  An ImageJ description is
\* represented by what the three searches find in it.
ReSearchInt(desc, key) == desc[key]

\* Stack._parse_imagej_tags
ParseImageJTags(desc) ==
    LET mf == ReSearchInt(desc, "frames")
        ms == ReSearchInt(desc, "slices")
        mc == ReSearchInt(desc, "channels")
        nf0 == IF mf # None THEN Val(mf) ELSE 1
        fold == ms # None /\ nf0 = 1 /\ Val(ms) > 1
        nf1 == IF fold THEN Val(ms) ELSE nf0
        \* "elif n_frames > 1": n_frames is not a name of the function
        nameError == ms # None /\ ~fold
        nc == IF mc # None THEN Val(mc) ELSE 1
    IN  IF nameError
        THEN Parsed(Some("NameError"), Some("tc"), Some(nf1), None)
        ELSE Parsed(None, Some("tc"), Some(nf1), Some(nc))

\* An XML attribute value is text: an integer literal (AttrInt), or text
\* that int() rejects with ValueError (AttrText).
AttrInt(n) == [lit |-> TRUE, n |-> n]
AttrText == [lit |-> FALSE, n |-> 0]
IsIntLiteral(s) == s.lit
PyInt(s) == s.n

\* str.find: 0-based index of the first occurrence, -1 when absent
Find(s, ch) ==
    IF \E k \in 1..Len(s) : s[k] = ch
    THEN (CHOOSE k \in 1..Len(s) : s[k] = ch /\ \A j \in 1..(k-1) : s[j] # ch) - 1
    ELSE -1

\* A slip: the comparison of the two positions is reversed
OmeOrderReversed(dim_order) ==
    LET idx_C == Find(dim_order, "C")
        idx_T == Find(dim_order, "T")
    IN  IF idx_C = -1 \/ idx_T = -1 THEN None
        ELSE IF idx_C > idx_T THEN Some("tc") ELSE Some("ct")

\* The order chosen from the positions of 'C' and 'T' (lines 232-239)
OmeOrder(dim_order) ==
    LET idx_C == Find(dim_order, "C")
        idx_T == Find(dim_order, "T")
    IN  IF idx_C = -1 \/ idx_T = -1 THEN None
        ELSE IF idx_C < idx_T THEN Some("tc") ELSE Some("ct")

\* A slip: a size of 0 is accepted
OmeSizeErrorAllowsZero(a) ==
    IF a = None THEN Some("ValueError")
    ELSE IF ~IsIntLiteral(Val(a)) THEN Some("ValueError")
    ELSE IF PyInt(Val(a)) < 0 THEN Some("ValueError")
    ELSE None

\* One Size* attribute (lines 192-200): the exception it raises, or None
OmeSizeError(a) ==
    IF a = None THEN Some("ValueError")
    ELSE IF ~IsIntLiteral(Val(a)) THEN Some("ValueError")
    ELSE IF PyInt(Val(a)) < 1 THEN Some("ValueError")
    ELSE None

\* Stack._parse_ome
ParseOme(ome) ==
    LET sizeT == Some(PyInt(Val(ome.SizeT)))
        sizeC == Some(PyInt(Val(ome.SizeC)))
    IN
    IF ~ome.xml_ok THEN Parsed(Some("ParseError"), None, None, None)
    ELSE IF ~ome.has_image THEN Parsed(Some("TypeError"), None, None, None)
    ELSE IF ~ome.has_pixels THEN Parsed(Some("TypeError"), None, None, None)
    ELSE IF OmeSizeError(ome.SizeT) # None
         THEN Parsed(OmeSizeError(ome.SizeT), None, None, None)
    ELSE IF OmeSizeError(ome.SizeC) # None
         THEN Parsed(OmeSizeError(ome.SizeC), None, sizeT, None)
    ELSE IF OmeSizeError(ome.SizeZ) # None
         THEN Parsed(OmeSizeError(ome.SizeZ), None, sizeT, sizeC)
    ELSE IF PyInt(Val(ome.SizeZ)) # 1
         THEN Parsed(Some("ValueError"), None, sizeT, sizeC)
    ELSE IF ome.DimensionOrder = None
         THEN Parsed(Some("ValueError"), None, sizeT, sizeC)
    ELSE IF OmeOrder(Val(ome.DimensionOrder)) = None
         THEN Parsed(Some("ValueError"), None, sizeT, sizeC)
    ELSE Parsed(None, OmeOrder(Val(ome.DimensionOrder)), sizeT, sizeC)

\* The dialect dispatch of Stack.load (lines 88-94)
ParseDescription(f) ==
    IF f.dialect = "imagej" THEN ParseImageJTags(f.ij)
    ELSE IF f.dialect = "ome" THEN ParseOme(f.ome)
    ELSE Parsed(Some("TypeError"), None, None, None)

-----------------------------------------------------------------------------
(* Input files: what tifffile reports of a TIFF file, and whether the        *)
(* environment lets the buffer be allocated and each page be decoded.        *)

OptDim == {None} \cup {Some(n) : n \in 0..MaxDim}
\* slices= absent, one slice, several slices
OptSlices == {None, Some(1), Some(MaxDim)}

IJ(f, s, c) == [frames |-> f, slices |-> s, channels |-> c]
IJDefault == IJ(None, None, None)

XYCZT == <<"X", "Y", "C", "Z", "T">>
XYZTC == <<"X", "Y", "Z", "T", "C">>

OME(t, c, z, d) == [xml_ok |-> TRUE, has_image |-> TRUE, has_pixels |-> TRUE,
                    SizeT |-> t, SizeC |-> c, SizeZ |-> z, DimensionOrder |-> d]
OMEDefault == OME(Some(AttrInt(1)), Some(AttrInt(1)), Some(AttrInt(1)), Some(XYCZT))

File(nm, op, pg, b, d, ij, ome, al, bad) ==
    [name |-> nm, openable |-> op, pages |-> pg, bits |-> b, width |-> 2,
     height |-> 1, dialect |-> d, ij |-> ij, ome |-> ome, alloc_ok |-> al,
     bad_page |-> bad]

IJFile(nm, pg, b, ij) == File(nm, TRUE, pg, b, "imagej", ij, OMEDefault, TRUE, None)
OMEFile(nm, pg, b, ome) == File(nm, TRUE, pg, b, "ome", IJDefault, ome, TRUE, None)

\* Every kind of file, for the specification of load
Files ==
    {File("a.tif", FALSE, 1, 8, "imagej", IJDefault, OMEDefault, TRUE, None)}
    \cup {IJFile("a.tif", pg, b, IJDefault) : pg \in 0..MaxPages, b \in {8, 12, 16}}
    \cup {IJFile("a.tif", pg, 8, IJ(f, s, c)) :
            pg \in 1..MaxPages, f \in OptDim, s \in OptSlices, c \in OptDim}
    \cup {OMEFile("b.tif", 2, 16, OME(Some(AttrInt(t)), Some(AttrInt(c)),
                                     Some(AttrInt(1)), Some(d))) :
            t \in 1..MaxDim, c \in 1..MaxDim, d \in {XYCZT, XYZTC}}
    \cup {File("b.tif", TRUE, 1, 8, "none", IJDefault, OMEDefault, TRUE, None)}
    \cup {File("b.tif", TRUE, 2, 8, "imagej", IJ(None, None, Some(2)), OMEDefault,
               al, bad) : al \in BOOLEAN, bad \in {None, Some(0), Some(1)}}

\* The files of the single-threaded specification: two that load, one with
\* fewer pages than channels, and one for each way of failing
FilesSeq ==
    {IJFile("a.tif", 2, 8, IJ(None, None, Some(2))),
     OMEFile("b.tif", 2, 16, OME(Some(AttrInt(2)), Some(AttrInt(1)),
                                 Some(AttrInt(1)), Some(XYZTC))),
     IJFile("a.tif", 1, 8, IJ(None, None, Some(2))),
     File("a.tif", FALSE, 1, 8, "imagej", IJDefault, OMEDefault, TRUE, None),
     IJFile("a.tif", 0, 8, IJDefault),
     IJFile("b.tif", 1, 12, IJDefault),
     IJFile("a.tif", 1, 8, IJ(Some(2), Some(2), None)),
     File("b.tif", TRUE, 1, 8, "none", IJDefault, OMEDefault, TRUE, None),
     File("b.tif", TRUE, 2, 8, "imagej", IJ(None, None, Some(2)), OMEDefault,
          FALSE, None),
     File("b.tif", TRUE, 2, 8, "imagej", IJ(None, None, Some(2)), OMEDefault,
          TRUE, Some(1))}

\* The files of the multi-threaded specification
FilesMT ==
    {IJFile("a.tif", 2, 8, IJ(None, None, Some(2))),
     IJFile("b.tif", 1, 12, IJDefault),
     File("b.tif", TRUE, 2, 16, "imagej", IJ(Some(2), None, None), OMEDefault,
          TRUE, Some(1))}

-----------------------------------------------------------------------------
(* threading.RLock: owner 0 means the lock is free                           *)

Free == [owner |-> 0, count |-> 0]
\* A slip: threading.Lock instead of threading.RLock
PlainLock(lock, t) == lock.owner = 0
\* A slip: a lock that never makes a thread wait
NeverWaits(lock, t) == TRUE
CanAcquire(lock, t) == lock.owner = 0 \/ lock.owner = t
Acquire(lock, t) == [owner |-> t, count |-> lock.count + 1]
Release(lock) == IF lock.count <= 1 THEN Free ELSE [lock EXCEPT !.count = @ - 1]

-----------------------------------------------------------------------------
(* Thread frames                                                             *)

IdleFrame ==
    [pc |-> "idle", op |-> "none", arg |-> <<>>, tiff |-> "unbound",
     i |-> 0, k |-> 0, err |-> None, queue |-> <<>>, after |-> "idle",
     view |-> None, copy |-> <<>>, ret |-> None, log |-> <<>>, obs |-> None,
     snap |-> None, meta |-> None, found |-> None]

Threads == DOMAIN th

\* What a reader finds in the Stack at one instant
Snapshot ==
    [path |-> path, mode |-> mode, order |-> order, width |-> width,
     height |-> height, n_images |-> n_images, n_channels |-> n_channels,
     n_frames |-> n_frames,
     img |-> IF img = None THEN None ELSE Some(bufs[Val(img)])]

Start(t, op, arg, pc) ==
    /\ th[t].pc = "idle"
    /\ budget > 0
    /\ budget' = budget - 1
    /\ th' = [th EXCEPT ![t] = [IdleFrame EXCEPT !.pc = pc, !.op = op, !.arg = arg]]

\* The operation returns to its caller
Return(t) ==
    /\ th[t].pc = "ret"
    /\ th' = [th EXCEPT ![t] = IdleFrame]
    /\ UNCHANGED <<winVars, stackVars, rois, info, image_lock, roi_lock, listeners,
                   next_lid, bufs, tmp_open, tmp_made, budget>>

-----------------------------------------------------------------------------
(* Mapped buffers and temporary files                                        *)

Blank == <<>>
Pixel(page, k) == <<page, k>>
NPix(w, h) == w * h

NewBuffer(nc, nf, npix) ==
    [nc |-> nc, nf |-> nf,
     data |-> [p \in (0..(nc-1)) \X (0..(nf-1)) |-> [k \in 1..npix |-> Blank]]]

FreshId(used) == CHOOSE n \in 1..(Cardinality(used) + 1) : n \notin used

\* Buffers stay alive while the Stack or a thread's view refers to them
Views(frames) == {Val(frames[t].view) : t \in {u \in DOMAIN frames : frames[u].view # None}}
Collect(b, image, frames) ==
    LET keep == (IF image = None THEN {} ELSE {Val(image)}) \cup Views(frames)
    IN  [id \in (DOMAIN b) \cap keep |-> b[id]]

-----------------------------------------------------------------------------
(* Listener registry (listener.Listeners)                                    *)

Kinds == {"image", "roi", "both"}

Matches(entry, kind) == kind = "all" \/ entry.kind = "both" \/ entry.kind = kind

RECURSIVE Subscribers(_, _)
Subscribers(ls, kind) ==
    IF ls = <<>> THEN <<>>
    ELSE IF Matches(Head(ls), kind)
         THEN <<Head(ls)>> \o Subscribers(Tail(ls), kind)
         ELSE Subscribers(Tail(ls), kind)

RECURSIVE Without(_, _)
Without(ls, lid) ==
    IF ls = <<>> THEN <<>>
    ELSE IF Head(ls).id = lid THEN Without(Tail(ls), lid)
         ELSE <<Head(ls)>> \o Without(Tail(ls), lid)

\* Stack.add_listener
AddListener(t, kind) ==
    /\ Len(listeners) < MaxListeners
    /\ Start(t, "add_listener", kind, "ret")
    /\ listeners' = Append(listeners, [id |-> next_lid, kind |-> kind])
    /\ next_lid' = next_lid + 1
    /\ UNCHANGED <<winVars, stackVars, rois, info, image_lock, roi_lock, bufs, tmp_open,
                   tmp_made>>

\* Stack.delete_listener
DeleteListener(t, lid) ==
    /\ \E n \in 1..Len(listeners) : listeners[n].id = lid
    /\ Start(t, "delete_listener", lid, "ret")
    /\ listeners' = Without(listeners, lid)
    /\ UNCHANGED <<winVars, stackVars, rois, info, image_lock, roi_lock, next_lid, bufs,
                   tmp_open, tmp_made>>

\* Listeners.notify(kind) begins: the subscribers are fixed now
BeginNotify(fr, kind, after) == [fr EXCEPT !.queue = Subscribers(listeners, kind),
                                           !.after = after, !.pc = "notify"]

\* One listener is called by the notifying thread.  The callback re-reads
\* the Stack's properties, for which it takes the image lock.
Callback(t) ==
    /\ th[t].pc = "notify"
    /\ th[t].queue # <<>>
    /\ CanAcquire(image_lock, t)
    /\ th' = [th EXCEPT ![t].queue = Tail(@),
                        ![t].log = Append(@, Head(th[t].queue).id),
                        ![t].obs = Some([lid |-> Head(th[t].queue).id,
                                         kind |-> Head(th[t].queue).kind,
                                         held_image |-> image_lock.owner = t,
                                         held_roi |-> roi_lock.owner = t,
                                         snap |-> Snapshot])]
    /\ UNCHANGED <<winVars, stackVars, rois, info, image_lock, roi_lock, listeners,
                   next_lid, bufs, tmp_open, tmp_made, budget>>

\* Listeners.notify returns
NotifyDone(t) ==
    /\ th[t].pc = "notify"
    /\ th[t].queue = <<>>
    /\ th' = [th EXCEPT ![t].pc = th[t].after]
    /\ UNCHANGED <<winVars, stackVars, rois, info, image_lock, roi_lock, listeners,
                   next_lid, bufs, tmp_open, tmp_made, budget>>

-----------------------------------------------------------------------------
(* Stack._clear_state, entered with th[t].after naming where it returns to   *)

NoRois == [key \in {} |-> <<>>]
NoInfo == [name \in {} |-> <<>>]

\* A slip: the frame and channel counts are not reset
ClearImageKeepsDims(t) ==
    /\ th[t].pc = "cs_image"
    /\ CanAcquire(image_lock, t)
    /\ path' = None
    /\ img' = None
    /\ tmpfile' = None
    /\ mode' = None
    /\ order' = None
    /\ width' = 0
    /\ height' = 0
    /\ n_images' = 0
    /\ bufs' = Collect(bufs, None, th)
    /\ th' = [th EXCEPT ![t].pc = "cs_roi"]
    /\ UNCHANGED <<winVars, n_frames, n_channels, rois, info, image_lock, roi_lock,
                   listeners, next_lid, tmp_open, tmp_made, budget>>

\* lines 41-54
ClearImage(t) ==
    /\ th[t].pc = "cs_image"
    /\ CanAcquire(image_lock, t)
    /\ path' = None
    /\ img' = None
    /\ tmpfile' = None
    /\ mode' = None
    /\ order' = None
    /\ width' = 0
    /\ height' = 0
    /\ n_images' = 0
    /\ n_frames' = 0
    /\ n_channels' = 0
    /\ bufs' = Collect(bufs, None, th)
    /\ th' = [th EXCEPT ![t].pc = "cs_roi"]
    /\ UNCHANGED <<winVars, rois, info, image_lock, roi_lock, listeners, next_lid,
                   tmp_open, tmp_made, budget>>

\* A slip: _clear_state leaves the ROI map and the info dictionary alone
ClearRoisInfoKeeps(t) ==
    /\ th[t].pc = "cs_roi"
    /\ th' = [th EXCEPT ![t].pc = "cs_notify"]
    /\ UNCHANGED <<winVars, stackVars, rois, info, image_lock, roi_lock, listeners,
                   next_lid, bufs, tmp_open, tmp_made, budget>>

\* lines 57-61
ClearRoisInfo(t) ==
    /\ th[t].pc = "cs_roi"
    /\ CanAcquire(roi_lock, t)
    /\ rois' = NoRois
    /\ info' = NoInfo
    /\ th' = [th EXCEPT ![t].pc = "cs_notify"]
    /\ UNCHANGED <<winVars, stackVars, image_lock, roi_lock, listeners, next_lid, bufs,
                   tmp_open, tmp_made, budget>>

\* line 64
ClearNotify(t) ==
    /\ th[t].pc = "cs_notify"
    /\ th' = [th EXCEPT ![t] = BeginNotify(@, "all", th[t].after)]
    /\ UNCHANGED <<winVars, stackVars, rois, info, image_lock, roi_lock, listeners,
                   next_lid, bufs, tmp_open, tmp_made, budget>>

-----------------------------------------------------------------------------
(* Stack.load                                                                *)

LoadCall(t, f) ==
    /\ Start(t, "load", f, "load_lock")
    /\ UNCHANGED <<winVars, stackVars, rois, info, image_lock, roi_lock, listeners,
                   next_lid, bufs, tmp_open, tmp_made>>

\* line 69
LoadAcquire(t) ==
    /\ th[t].pc = "load_lock"
    /\ CanAcquire(image_lock, t)
    /\ image_lock' = Acquire(image_lock, t)
    /\ th' = [th EXCEPT ![t].pc = "load_open",
                        ![t].found = Some([loaded |-> img # None,
                                           rois |-> rois # NoRois,
                                           info |-> info # NoInfo])]
    /\ UNCHANGED <<winVars, stackVars, rois, info, roi_lock, listeners, next_lid, bufs,
                   tmp_open, tmp_made, budget>>

\* lines 72-76
LoadOpen(t) ==
    LET f == th[t].arg IN
    /\ th[t].pc = "load_open"
    /\ path' = Some(f.name)
    /\ th' = IF ~f.openable
             THEN [th EXCEPT ![t].err = Some("FileNotFoundError"),
                             ![t].pc = "load_except"]
             ELSE IF f.pages = 0
             THEN [th EXCEPT ![t].tiff = "open", ![t].err = Some("ValueError"),
                             ![t].pc = "load_except"]
             ELSE [th EXCEPT ![t].tiff = "open", ![t].pc = "load_basic"]
    /\ UNCHANGED <<winVars, img, tmpfile, mode, order, width, height, n_images, n_frames,
                   n_channels, rois, info, image_lock, roi_lock, listeners,
                   next_lid, bufs, tmp_open, tmp_made, budget>>

\* A slip: the bit depth is not checked
LoadBasicAnyDepth(t) ==
    LET f == th[t].arg IN
    /\ th[t].pc = "load_basic"
    /\ n_images' = f.pages
    /\ width' = f.width
    /\ height' = f.height
    /\ mode' = Some(f.bits)
    /\ th' = [th EXCEPT ![t].pc = "load_parse"]
    /\ UNCHANGED <<winVars, path, img, tmpfile, order, n_frames, n_channels, rois, info,
                   image_lock, roi_lock, listeners, next_lid, bufs, tmp_open,
                   tmp_made, budget>>

\* lines 79-85
LoadBasic(t) ==
    LET f == th[t].arg IN
    /\ th[t].pc = "load_basic"
    /\ n_images' = f.pages
    /\ width' = f.width
    /\ height' = f.height
    /\ mode' = Some(f.bits)
    /\ th' = IF f.bits # 8 /\ f.bits # 16
             THEN [th EXCEPT ![t].err = Some("TypeError"), ![t].pc = "load_except"]
             ELSE [th EXCEPT ![t].pc = "load_parse"]
    /\ UNCHANGED <<winVars, path, img, tmpfile, order, n_frames, n_channels, rois, info,
                   image_lock, roi_lock, listeners, next_lid, bufs, tmp_open,
                   tmp_made, budget>>

\* lines 88-94
LoadParse(t) ==
    LET r == ParseDescription(th[t].arg) IN
    /\ th[t].pc = "load_parse"
    /\ order' = IF r.order = None THEN order ELSE r.order
    /\ n_frames' = IF r.n_frames = None THEN n_frames ELSE Val(r.n_frames)
    /\ n_channels' = IF r.n_channels = None THEN n_channels ELSE Val(r.n_channels)
    /\ th' = IF r.err # None
             THEN [th EXCEPT ![t].err = r.err, ![t].pc = "load_except"]
             ELSE [th EXCEPT ![t].pc = "load_alloc"]
    /\ UNCHANGED <<winVars, path, img, tmpfile, mode, width, height, n_images, rois, info,
                   image_lock, roi_lock, listeners, next_lid, bufs, tmp_open,
                   tmp_made, budget>>

\* lines 97-104: the temporary file is created, then the buffer is mapped
LoadAlloc(t) ==
    LET f == th[t].arg
        tmp == tmp_made + 1
        size == n_channels * n_frames * height * width
        ok == f.alloc_ok /\ size > 0
        id == FreshId(DOMAIN bufs)
        b == (id :> NewBuffer(n_channels, n_frames, NPix(width, height))) @@ bufs
    IN
    /\ th[t].pc = "load_alloc"
    /\ tmp_made' = tmp
    /\ tmp_open' = tmp_open \cup {tmp}
    /\ tmpfile' = Some(tmp)
    /\ img' = IF ok THEN Some(id) ELSE img
    /\ bufs' = IF ok THEN Collect(b, Some(id), th) ELSE bufs
    /\ th' = IF ok
             THEN [th EXCEPT ![t].i = 0, ![t].k = 0, ![t].pc = "load_fill"]
             ELSE [th EXCEPT ![t].err = Some(IF f.alloc_ok THEN "ValueError"
                                                           ELSE "OSError"),
                             ![t].pc = "load_except"]
    /\ UNCHANGED <<winVars, path, mode, order, width, height, n_images, n_frames,
                   n_channels, rois, info, image_lock, roi_lock, listeners,
                   next_lid, budget>>

\* lines 105-107: one pixel of page i is decoded into its place, or the
\* page's position or its decoding raises
LoadFill(t) ==
    LET f == th[t].arg
        i == th[t].i
        k == th[t].k
        pos == ConvertPosition(order, n_channels, n_frames, None, None, Some(i))
        ch == pos.val[1]
        fr == pos.val[2]
        buf == bufs[Val(img)]
        fail(e) == [th EXCEPT ![t].err = Some(e), ![t].pc = "load_except"]
        last == k + 1 >= Len(buf.data[<<ch, fr>>])
    IN
    /\ th[t].pc = "load_fill"
    /\ CanAcquire(image_lock, t)
    /\ IF i >= n_images
       THEN /\ th' = [th EXCEPT ![t].pc = "load_finally"]
            /\ bufs' = bufs
       ELSE IF pos.tag = "raise"
       THEN /\ th' = fail(pos.val)
            /\ bufs' = bufs
       ELSE IF pos.val = None \/ img = None
       THEN /\ th' = fail("TypeError")
            /\ bufs' = bufs
       ELSE IF ch >= buf.nc \/ fr >= buf.nf
       THEN /\ th' = fail("IndexError")
            /\ bufs' = bufs
       ELSE IF f.bad_page = Some(i)
       THEN /\ th' = fail("TiffFileError")
            /\ bufs' = bufs
       ELSE /\ bufs' = [bufs EXCEPT ![Val(img)].data[<<ch, fr>>][k + 1] = Pixel(i, k)]
            /\ th' = [th EXCEPT ![t].i = IF last THEN i + 1 ELSE i,
                                ![t].k = IF last THEN 0 ELSE k + 1]
    /\ UNCHANGED <<winVars, stackVars, rois, info, image_lock, roi_lock, listeners,
                   next_lid, tmp_open, tmp_made, budget>>

\* A slip: the handler raises again without _clear_state()
LoadExceptNoClear(t) ==
    /\ th[t].pc = "load_except"
    /\ th' = [th EXCEPT ![t].pc = "load_finally"]
    /\ UNCHANGED <<winVars, stackVars, rois, info, image_lock, roi_lock, listeners,
                   next_lid, bufs, tmp_open, tmp_made, budget>>

\* lines 109-112: _clear_state(), then the exception is raised again
LoadExcept(t) ==
    /\ th[t].pc = "load_except"
    /\ th' = [th EXCEPT ![t].after = "load_finally", ![t].pc = "cs_image"]
    /\ UNCHANGED <<winVars, stackVars, rois, info, image_lock, roi_lock, listeners,
                   next_lid, bufs, tmp_open, tmp_made, budget>>

\* lines 114-118: tiff is not bound when TiffFile() itself raised
LoadFinally(t) ==
    /\ th[t].pc = "load_finally"
    /\ th' = IF th[t].tiff = "unbound"
             THEN [th EXCEPT ![t].err = Some("UnboundLocalError"),
                             ![t].pc = "load_release"]
             ELSE [th EXCEPT ![t] = BeginNotify([@ EXCEPT !.tiff = "closed"],
                                                "image", "load_release")]
    /\ UNCHANGED <<winVars, stackVars, rois, info, image_lock, roi_lock, listeners,
                   next_lid, bufs, tmp_open, tmp_made, budget>>

\* the with block of line 69 is left
LoadRelease(t) ==
    /\ th[t].pc = "load_release"
    /\ image_lock' = Release(image_lock)
    /\ th' = [th EXCEPT ![t].pc = "ret"]
    /\ UNCHANGED <<winVars, stackVars, rois, info, roi_lock, listeners, next_lid, bufs,
                   tmp_open, tmp_made, budget>>

-----------------------------------------------------------------------------
(* Stack.close                                                               *)

CloseCall(t) ==
    /\ Start(t, "close", [img |-> img, tmpfile |-> tmpfile], "close_lock")
    /\ UNCHANGED <<winVars, stackVars, rois, info, image_lock, roi_lock, listeners,
                   next_lid, bufs, tmp_open, tmp_made>>

\* line 123
CloseAcquire(t) ==
    /\ th[t].pc = "close_lock"
    /\ CanAcquire(image_lock, t)
    /\ image_lock' = Acquire(image_lock, t)
    /\ th' = [th EXCEPT ![t].pc = "close_img"]
    /\ UNCHANGED <<winVars, stackVars, rois, info, roi_lock, listeners, next_lid, bufs,
                   tmp_open, tmp_made, budget>>

\* line 124
CloseImg(t) ==
    /\ th[t].pc = "close_img"
    /\ img' = None
    /\ bufs' = Collect(bufs, None, th)
    /\ th' = [th EXCEPT ![t].pc = "close_tmp"]
    /\ UNCHANGED <<winVars, path, tmpfile, mode, order, width, height, n_images,
                   n_frames, n_channels, rois, info, image_lock, roi_lock,
                   listeners, next_lid, tmp_open, tmp_made, budget>>

\* A slip: the reference is dropped without closing the file
CloseTmpNotClosed(t) ==
    /\ th[t].pc = "close_tmp"
    /\ IF tmpfile = None
       THEN /\ th' = [th EXCEPT ![t].err = Some("AttributeError"),
                                ![t].pc = "close_release"]
            /\ UNCHANGED <<winVars, tmpfile, tmp_open>>
       ELSE /\ tmp_open' = tmp_open
            /\ tmpfile' = None
            /\ th' = [th EXCEPT ![t].after = "close_release", ![t].pc = "cs_image"]
    /\ UNCHANGED <<winVars, path, img, mode, order, width, height, n_images, n_frames,
                   n_channels, rois, info, image_lock, roi_lock, listeners,
                   next_lid, bufs, tmp_made, budget>>

\* lines 125-127: None has no close(); otherwise the file is closed and
\* _clear_state() is entered
CloseTmp(t) ==
    /\ th[t].pc = "close_tmp"
    /\ IF tmpfile = None
       THEN /\ th' = [th EXCEPT ![t].err = Some("AttributeError"),
                                ![t].pc = "close_release"]
            /\ UNCHANGED <<winVars, tmpfile, tmp_open>>
       ELSE /\ tmp_open' = tmp_open \ {Val(tmpfile)}
            /\ tmpfile' = None
            /\ th' = [th EXCEPT ![t].after = "close_release", ![t].pc = "cs_image"]
    /\ UNCHANGED <<winVars, path, img, mode, order, width, height, n_images, n_frames,
                   n_channels, rois, info, image_lock, roi_lock, listeners,
                   next_lid, bufs, tmp_made, budget>>

CloseRelease(t) ==
    /\ th[t].pc = "close_release"
    /\ image_lock' = Release(image_lock)
    /\ th' = [th EXCEPT ![t].pc = "ret"]
    /\ UNCHANGED <<winVars, stackVars, rois, info, roi_lock, listeners, next_lid, bufs,
                   tmp_open, tmp_made, budget>>

-----------------------------------------------------------------------------
(* ROI map: Stack.set_rois, Stack.get_rois, Stack.clear_rois                 *)

\* Keys of Stack._rois: Ellipsis (all frames) or a frame index
Ellipsis == [all |-> TRUE, n |-> 0]
FrameKey(n) == [all |-> FALSE, n |-> n]
FrameKeys == {Ellipsis} \cup {FrameKey(n) : n \in 0..1}

RoiTypes == {"rect", "raw", "poly"}
RoiArrays == {"R1", "R2"}

\* A slip: every type is accepted
RoiSetAnyType(roi_arr, type_) == Ret([roi_arr |-> roi_arr])

\* RoiSet.__init__ (lines 462-472)
RoiSet(roi_arr, type_) ==
    IF type_ = "rect" THEN Ret([roi_arr |-> roi_arr])
    ELSE IF type_ = "raw" THEN Ret([roi_arr |-> roi_arr])
    ELSE Raise("NameError")

SetRoisCall(t, roi_arr, type_, frame) ==
    /\ Start(t, "set_rois", [rois |-> roi_arr, type_ |-> type_, frame |-> frame],
             "sr_lock")
    /\ UNCHANGED <<winVars, stackVars, rois, info, image_lock, roi_lock, listeners,
                   next_lid, bufs, tmp_open, tmp_made>>

\* A slip: set_rois guarded by the image lock
SetRoisAcquireImageLock(t) ==
    /\ th[t].pc = "sr_lock"
    /\ CanAcquire(image_lock, t)
    /\ image_lock' = Acquire(image_lock, t)
    /\ th' = [th EXCEPT ![t].pc = "sr_body"]
    /\ UNCHANGED <<winVars, stackVars, rois, info, roi_lock, listeners, next_lid, bufs,
                   tmp_open, tmp_made, budget>>

\* line 384
SetRoisAcquire(t) ==
    /\ th[t].pc = "sr_lock"
    /\ CanAcquire(roi_lock, t)
    /\ roi_lock' = Acquire(roi_lock, t)
    /\ th' = [th EXCEPT ![t].pc = "sr_body"]
    /\ UNCHANGED <<winVars, stackVars, rois, info, image_lock, listeners, next_lid, bufs,
                   tmp_open, tmp_made, budget>>

\* A slip: set_rois announces an image event
SetRoisBodyNotifiesImage(t) ==
    LET a == th[t].arg
        rs == RoiSet(a.rois, a.type_)
    IN
    /\ th[t].pc = "sr_body"
    /\ IF rs.tag = "raise"
       THEN /\ th' = [th EXCEPT ![t].err = Some(rs.val), ![t].pc = "roi_release"]
            /\ rois' = rois
       ELSE /\ rois' = (a.frame :> rs.val) @@ rois
            /\ th' = [th EXCEPT ![t] = BeginNotify(@, "image", "roi_release")]
    /\ UNCHANGED <<winVars, stackVars, info, image_lock, roi_lock, listeners, next_lid,
                   bufs, tmp_open, tmp_made, budget>>

\* lines 385-386
SetRoisBody(t) ==
    LET a == th[t].arg
        rs == RoiSet(a.rois, a.type_)
    IN
    /\ th[t].pc = "sr_body"
    /\ IF rs.tag = "raise"
       THEN /\ th' = [th EXCEPT ![t].err = Some(rs.val), ![t].pc = "roi_release"]
            /\ rois' = rois
       ELSE /\ rois' = (a.frame :> rs.val) @@ rois
            /\ th' = [th EXCEPT ![t] = BeginNotify(@, "roi", "roi_release")]
    /\ UNCHANGED <<winVars, stackVars, info, image_lock, roi_lock, listeners, next_lid,
                   bufs, tmp_open, tmp_made, budget>>

\* frame is None (clear everything) or Some(key)
ClearRoisCall(t, frame) ==
    /\ Start(t, "clear_rois", frame, "cr_lock")
    /\ UNCHANGED <<winVars, stackVars, rois, info, image_lock, roi_lock, listeners,
                   next_lid, bufs, tmp_open, tmp_made>>

\* line 402
ClearRoisAcquire(t) ==
    /\ th[t].pc = "cr_lock"
    /\ CanAcquire(roi_lock, t)
    /\ roi_lock' = Acquire(roi_lock, t)
    /\ th' = [th EXCEPT ![t].pc = "cr_body"]
    /\ UNCHANGED <<winVars, stackVars, rois, info, image_lock, listeners, next_lid, bufs,
                   tmp_open, tmp_made, budget>>

\* A slip: clear_rois(frame) empties the whole map
ClearRoisBodyClearsAll(t) ==
    LET frame == th[t].arg IN
    /\ th[t].pc = "cr_body"
    /\ IF frame # None /\ Val(frame) \notin DOMAIN rois
       THEN /\ rois' = rois
            /\ th' = [th EXCEPT ![t].err = Some("KeyError"), ![t].pc = "roi_release"]
       ELSE /\ rois' = NoRois
            /\ th' = [th EXCEPT ![t] = BeginNotify(@, "roi", "roi_release")]
    /\ UNCHANGED <<winVars, stackVars, info, image_lock, roi_lock, listeners, next_lid,
                   bufs, tmp_open, tmp_made, budget>>

\* lines 403-407
ClearRoisBody(t) ==
    LET frame == th[t].arg IN
    /\ th[t].pc = "cr_body"
    /\ IF frame = None
       THEN /\ rois' = NoRois
            /\ th' = [th EXCEPT ![t] = BeginNotify(@, "roi", "roi_release")]
       ELSE IF Val(frame) \notin DOMAIN rois
       THEN /\ rois' = rois
            /\ th' = [th EXCEPT ![t].err = Some("KeyError"), ![t].pc = "roi_release"]
       ELSE /\ rois' = [key \in (DOMAIN rois) \ {Val(frame)} |-> rois[key]]
            /\ th' = [th EXCEPT ![t] = BeginNotify(@, "roi", "roi_release")]
    /\ UNCHANGED <<winVars, stackVars, info, image_lock, roi_lock, listeners, next_lid,
                   bufs, tmp_open, tmp_made, budget>>

\* the with block of set_rois / clear_rois is left
RoiRelease(t) ==
    /\ th[t].pc = "roi_release"
    /\ roi_lock' = Release(roi_lock)
    /\ th' = [th EXCEPT ![t].pc = "ret"]
    /\ UNCHANGED <<winVars, stackVars, rois, info, image_lock, listeners, next_lid, bufs,
                   tmp_open, tmp_made, budget>>

\* lines 395-397: dict.get gives None for a key that is absent
GetRois(t, frame) ==
    /\ CanAcquire(roi_lock, t)
    /\ th[t].pc = "idle"
    /\ budget > 0
    /\ budget' = budget - 1
    /\ th' = [th EXCEPT ![t] = [IdleFrame EXCEPT
                !.pc = "ret", !.op = "get_rois", !.arg = frame,
                !.ret = IF frame # None /\ Val(frame) \in DOMAIN rois
                        THEN Some(rois[Val(frame)]) ELSE None]]
    /\ UNCHANGED <<winVars, stackVars, rois, info, image_lock, roi_lock, listeners,
                   next_lid, bufs, tmp_open, tmp_made>>

\* numpy and list indexing (self.img[channel, frame, :, :], self._roi_arr[key]):
\* negative indices count from the end, indices outside raise IndexError
PyIndex(n, size) ==
    IF n >= size \/ n < -size THEN Raise("IndexError")
    ELSE IF n < 0 THEN Ret(n + size) ELSE Ret(n)

\* What the caller passed as rois: "R1" is a list of two ROIs, "R2" a
\* dictionary from label to ROI
RoiContents(roi_arr) ==
    IF roi_arr = "R1" THEN [kind |-> "list", items |-> <<"roi_a", "roi_b">>]
    ELSE [kind |-> "dict", items |-> [l \in {1, 2} |-> IF l = 1 THEN "roi_a" ELSE "roi_b"]]

Labels == (-1)..2

\* RoiSet.__getitem__ (lines 477-481): only IndexError is caught
RoiSetGetItem(rs, key) ==
    LET c == RoiContents(rs.roi_arr)
        ix == PyIndex(key, Len(c.items))
    IN  IF c.kind = "list"
        THEN IF ix.tag = "raise" THEN Ret(None) ELSE Ret(Some(c.items[ix.val + 1]))
        ELSE IF key \in DOMAIN c.items THEN Ret(Some(c.items[key]))
        ELSE Raise("KeyError")

\* stack.get_rois(frame)[key] on a frame that has a RoiSet
RoiGetItem(t, frame, key) ==
    LET res == RoiSetGetItem(rois[frame], key) IN
    /\ frame \in DOMAIN rois
    /\ CanAcquire(roi_lock, t)
    /\ th[t].pc = "idle"
    /\ budget > 0
    /\ budget' = budget - 1
    /\ th' = [th EXCEPT ![t] = [IdleFrame EXCEPT
                !.pc = "ret", !.op = "roi_getitem",
                !.arg = [frame |-> frame, key |-> key],
                !.err = IF res.tag = "raise" THEN Some(res.val) ELSE None,
                !.ret = IF res.tag = "raise" THEN None ELSE res.val]]
    /\ UNCHANGED <<winVars, stackVars, rois, info, image_lock, roi_lock, listeners,
                   next_lid, bufs, tmp_open, tmp_made>>

\* Stack.update_info (lines 343-345), under the info lock
UpdateInfo(t, name, value) ==
    /\ th[t].pc = "idle"
    /\ budget > 0
    /\ budget' = budget - 1
    /\ info' = (name :> value) @@ info
    /\ th' = [th EXCEPT ![t] = [IdleFrame EXCEPT
                !.pc = "ret", !.op = "update_info",
                !.arg = [name |-> name, value |-> value]]]
    /\ UNCHANGED <<winVars, stackVars, rois, image_lock, roi_lock, listeners, next_lid,
                   bufs, tmp_open, tmp_made>>

-----------------------------------------------------------------------------
(* Reads under the image lock                                                *)

Properties == {"path", "mode", "order", "width", "height", "n_images",
               "n_channels", "n_frames"}

\* A slip: a property that returns its field without the image lock
ReadPropertyUnlocked(t, name) ==
    /\ th[t].pc = "idle"
    /\ budget > 0
    /\ budget' = budget - 1
    /\ th' = [th EXCEPT ![t] = [IdleFrame EXCEPT
                !.pc = "ret", !.op = "property", !.arg = name,
                !.ret = Some(Snapshot[name]), !.snap = Some(Snapshot)]]
    /\ UNCHANGED <<winVars, stackVars, rois, info, image_lock, roi_lock, listeners,
                   next_lid, bufs, tmp_open, tmp_made>>

\* lines 410-455
ReadProperty(t, name) ==
    /\ CanAcquire(image_lock, t)
    /\ th[t].pc = "idle"
    /\ budget > 0
    /\ budget' = budget - 1
    /\ th' = [th EXCEPT ![t] = [IdleFrame EXCEPT
                !.pc = "ret", !.op = "property", !.arg = name,
                !.ret = Some(Snapshot[name]), !.snap = Some(Snapshot)]]
    /\ UNCHANGED <<winVars, stackVars, rois, info, image_lock, roi_lock, listeners,
                   next_lid, bufs, tmp_open, tmp_made>>

\* lines 288-291: a view of the buffer, not a copy
GetImage(t, channel, frame) ==
    LET buf == bufs[Val(img)]
        c == PyIndex(channel, buf.nc)
        f == PyIndex(frame, buf.nf)
        res == IF img = None THEN Raise("TypeError")
               ELSE IF c.tag = "raise" THEN c
               ELSE IF f.tag = "raise" THEN f
               ELSE Ret([buf |-> Val(img), channel |-> c.val, frame |-> f.val])
    IN
    /\ CanAcquire(image_lock, t)
    /\ th[t].pc = "idle"
    /\ budget > 0
    /\ budget' = budget - 1
    /\ th' = [th EXCEPT ![t] = [IdleFrame EXCEPT
                !.pc = "ret", !.op = "get_image",
                !.arg = [channel |-> channel, frame |-> frame],
                !.err = IF res.tag = "raise" THEN Some(res.val) ELSE None,
                !.ret = IF res.tag = "raise" THEN None ELSE Some(res.val),
                !.snap = Some(Snapshot)]]
    /\ UNCHANGED <<winVars, stackVars, rois, info, image_lock, roi_lock, listeners,
                   next_lid, bufs, tmp_open, tmp_made>>

\* lines 242-285, called from outside the Stack
ConvertCall(t, channel, frame, image) ==
    LET res == ConvertPosition(order, n_channels, n_frames, channel, frame, image)
    IN
    /\ CanAcquire(image_lock, t)
    /\ th[t].pc = "idle"
    /\ budget > 0
    /\ budget' = budget - 1
    /\ th' = [th EXCEPT ![t] = [IdleFrame EXCEPT
                !.pc = "ret", !.op = "convert_position",
                !.arg = [channel |-> channel, frame |-> frame, image |-> image],
                !.err = IF res.tag = "raise" THEN Some(res.val) ELSE None,
                !.ret = IF res.tag = "raise" THEN None ELSE Some(res.val),
                !.snap = Some(Snapshot)]]
    /\ UNCHANGED <<winVars, stackVars, rois, info, image_lock, roi_lock, listeners,
                   next_lid, bufs, tmp_open, tmp_made>>

-----------------------------------------------------------------------------
(* Stack.get_image_copy (lines 294-297)                                      *)

CopyCall(t, channel, frame) ==
    /\ Start(t, "get_image_copy", [channel |-> channel, frame |-> frame], "copy_lock")
    /\ UNCHANGED <<winVars, stackVars, rois, info, image_lock, roi_lock, listeners,
                   next_lid, bufs, tmp_open, tmp_made>>

CopyAcquire(t) ==
    /\ th[t].pc = "copy_lock"
    /\ CanAcquire(image_lock, t)
    /\ image_lock' = Acquire(image_lock, t)
    /\ th' = [th EXCEPT ![t].pc = "copy_view"]
    /\ UNCHANGED <<winVars, stackVars, rois, info, roi_lock, listeners, next_lid, bufs,
                   tmp_open, tmp_made, budget>>

\* self.img[channel, frame, :, :]
CopyView(t) ==
    LET a == th[t].arg
        buf == bufs[Val(img)]
        c == PyIndex(a.channel, buf.nc)
        f == PyIndex(a.frame, buf.nf)
        fail(e) == [th EXCEPT ![t].err = Some(e), ![t].pc = "copy_release"]
    IN
    /\ th[t].pc = "copy_view"
    /\ th' = IF img = None THEN fail("TypeError")
             ELSE IF c.tag = "raise" THEN fail(c.val)
             ELSE IF f.tag = "raise" THEN fail(f.val)
             ELSE [th EXCEPT ![t].view = img, ![t].i = c.val, ![t].k = f.val,
                             ![t].copy = <<>>, ![t].snap = Some(Snapshot),
                             ![t].pc = "copy_pixels"]
    /\ UNCHANGED <<winVars, stackVars, rois, info, image_lock, roi_lock, listeners,
                   next_lid, bufs, tmp_open, tmp_made, budget>>

\* .copy(): the pixels of the view are read one after the other
CopyPixels(t) ==
    LET src == bufs[Val(th[t].view)].data[<<th[t].i, th[t].k>>]
        n == Len(th[t].copy)
    IN
    /\ th[t].pc = "copy_pixels"
    /\ IF n < Len(src)
       THEN /\ th' = [th EXCEPT ![t].copy = Append(@, src[n + 1])]
            /\ bufs' = bufs
       ELSE /\ th' = [th EXCEPT ![t].view = None, ![t].ret = Some(th[t].copy),
                                ![t].pc = "copy_release"]
            /\ bufs' = Collect(bufs, img, [th EXCEPT ![t].view = None])
    /\ UNCHANGED <<winVars, stackVars, rois, info, image_lock, roi_lock, listeners,
                   next_lid, tmp_open, tmp_made, budget>>

CopyRelease(t) ==
    /\ th[t].pc = "copy_release"
    /\ image_lock' = Release(image_lock)
    /\ th' = [th EXCEPT ![t].pc = "ret"]
    /\ UNCHANGED <<winVars, stackVars, rois, info, roi_lock, listeners, next_lid, bufs,
                   tmp_open, tmp_made, budget>>

-----------------------------------------------------------------------------
(* The runtime's finalizer                                                   *)

\* A temporary file that the Stack no longer refers to and that was never
\* closed is closed when the runtime collects the file object: at once, at
\* some later time, or not before the process ends.
FinalizeTmp ==
    /\ \E id \in tmp_open :
           /\ tmpfile # Some(id)
           /\ tmp_open' = tmp_open \ {id}
    /\ UNCHANGED <<winVars, stackVars, rois, info, image_lock, roi_lock, listeners,
                   next_lid, bufs, tmp_made, th, budget>>

-----------------------------------------------------------------------------
(* Stack.get_frame_tk (lines 300-335)                                        *)

FrameTkCall(t, channel, frame, convert_fcn) ==
    /\ Start(t, "get_frame_tk",
             [channel |-> channel, frame |-> frame, convert_fcn |-> convert_fcn],
             "tk_lock")
    /\ UNCHANGED <<winVars, stackVars, rois, info, image_lock, roi_lock, listeners,
                   next_lid, bufs, tmp_open, tmp_made>>

\* line 320
FrameTkAcquire(t) ==
    /\ th[t].pc = "tk_lock"
    /\ CanAcquire(image_lock, t)
    /\ image_lock' = Acquire(image_lock, t)
    /\ th' = [th EXCEPT ![t].pc = "tk_image"]
    /\ UNCHANGED <<winVars, stackVars, rois, info, roi_lock, listeners, next_lid, bufs,
                   tmp_open, tmp_made, budget>>

\* lines 321-335: get_image takes the image lock again; the PhotoImage is
\* built from 8-bit values
FrameTkImage(t) ==
    LET a == th[t].arg
        buf == bufs[Val(img)]
        c == PyIndex(a.channel, buf.nc)
        f == PyIndex(a.frame, buf.nf)
        res == IF ~a.convert_fcn /\ mode \notin {Some(8), Some(16)}
               THEN Raise("ValueError")
               ELSE IF img = None THEN Raise("TypeError")
               ELSE IF c.tag = "raise" THEN c
               ELSE IF f.tag = "raise" THEN f
               ELSE Ret([photo |-> buf.data[<<c.val, f.val>>], bits |-> 8])
    IN
    /\ th[t].pc = "tk_image"
    /\ CanAcquire(image_lock, t)
    /\ th' = [th EXCEPT ![t].err = IF res.tag = "raise" THEN Some(res.val) ELSE None,
                        ![t].ret = IF res.tag = "raise" THEN None ELSE Some(res.val),
                        ![t].pc = "tk_release"]
    /\ UNCHANGED <<winVars, stackVars, rois, info, image_lock, roi_lock, listeners,
                   next_lid, bufs, tmp_open, tmp_made, budget>>

FrameTkRelease(t) ==
    /\ th[t].pc = "tk_release"
    /\ image_lock' = Release(image_lock)
    /\ th' = [th EXCEPT ![t].pc = "ret"]
    /\ UNCHANGED <<winVars, stackVars, rois, info, roi_lock, listeners, next_lid, bufs,
                   tmp_open, tmp_made, budget>>

-----------------------------------------------------------------------------
(* MetaStack (stack.metastack) and Main_Tk.open_metastack                    *)

\* A MetaStack right after construction
EmptyMeta == [stacks |-> <<>>, channels |-> <<>>, geometry |-> None]

Geometry(stack) == <<stack.width, stack.height, stack.n_frames>>

\* MetaStack.add_stack: a reference to the Stack is kept under the name
MetaAddStack(m, stack, name) ==
    [m EXCEPT !.stacks = Append(@, [name |-> name, stack |-> stack])]

MetaLookup(m, name) ==
    m.stacks[CHOOSE n \in 1..Len(m.stacks) : m.stacks[n].name = name].stack

\* A slip: the channel is appended before the geometry is compared
MetaAddChannelAppendsFirst(m, name, channel, label, type_) ==
    LET g == Geometry(MetaLookup(m, name))
        spec == [name |-> name, channel |-> channel, label |-> label, type |-> type_]
        added == [m EXCEPT !.channels = Append(@, spec)]
    IN  IF m.geometry # None /\ Val(m.geometry) # g
        THEN [err |-> Some("DimensionMismatch"), meta |-> added]
        ELSE [err |-> None, meta |-> [added EXCEPT !.geometry = Some(g)]]

\* MetaStack.add_channel for a channel of an added Stack: the first channel
\* fixes the geometry, a later one must match it
MetaAddChannel(m, name, channel, label, type_) ==
    LET g == Geometry(MetaLookup(m, name))
        spec == [name |-> name, channel |-> channel, label |-> label, type |-> type_]
    IN  IF m.geometry # None /\ Val(m.geometry) # g
        THEN [err |-> Some("DimensionMismatch"), meta |-> m]
        ELSE [err |-> None,
              meta |-> [m EXCEPT !.channels = Append(@, spec), !.geometry = Some(g)]]

-----------------------------------------------------------------------------
(* Main_Tk (src/src/main_window.py): the traces, the display attributes of   *)
(* the ROIs and the handlers that change them. Tk runs every handler to its  *)
(* end before the next event, so each handler is one step. Plot styling and  *)
(* label visibility (name_visible) are display-only and left out, and so is  *)
(* the notify("roi") that asks the viewer to redraw.                         *)
(*                                                                           *)
(* self.traces is a dictionary keyed by str(i + 1) in insertion order; it is *)
(* the sequence of its values here, and a trace's name is its position.      *)
(* self.rois is a list over the frames of dictionaries from label to ROI.    *)
(* Both are None (<<>>) until track_stack has run.                           *)

ROI_COLOR_SELECTED == "#00aa00"
ROI_COLOR_DESELECTED == "#0088ff"
ROI_COLOR_UNTRACKABLE == "#cc00cc"
ROI_COLOR_HIGHLIGHT == "#ff0000"
ROI_WIDTH == 1
ROI_WIDTH_HIGHLIGHT == 3

MaxTraces == 3
MaxFrames == 2

\* No dialog has been opened
NoOpener ==
    /\ op_stacks = << >> /\ op_channels = << >>
    /\ op_sel = None
    /\ op_cb = None
    /\ stack_closes = << >>

\* Main_Tk.__init__ (lines 139-160)
MainTkInit ==
    /\ traces = None /\ tk_rois = None
    /\ var_show_roi_contours = TRUE
    /\ var_show_untrackable = FALSE
    /\ i_frame = 0
    /\ hl_changed = {}
    /\ tk_ret = None
    /\ channel_selection = << >> /\ channel_order = << >>
    /\ tk_err = None
    /\ NoOpener

\* What a Tracker hands to track_stack (lines 375-377, 383, 390-392): per
\* frame the labelled regions with their (y_min, x_min), the traces as one
\* label per frame, and the initial selection. A frame has one region more
\* than there are traces; no two traces share a region.
TrackerResults ==
    LET RegionPos(fr, l) == <<(l + fr) % 2, l % 2>>
        TraceLabel(n, i, fr) == IF fr % 2 = 1 THEN i ELSE n + 1 - i
        TrackerResult(n, nf, sel) ==
            [props |-> [fr \in 1..nf |-> [l \in 1..(n + 1) |-> RegionPos(fr, l)]],
             traces |-> [i \in 1..n |-> [fr \in 1..nf |-> TraceLabel(n, i, fr)]],
             traces_selection |-> sel]
    IN  UNION { { TrackerResult(n, MaxFrames, sel) : sel \in [1..n -> BOOLEAN] } :
                n \in {1, MaxTraces} }

\* track_stack (lines 372-404). A ROI that belongs to no trace keeps the
\* name it was constructed with (none, 0 here); stroke_width is not passed
\* and keeps the constructor's default (None here).
TrackStack(res) ==
    LET show_contour == var_show_roi_contours
        show_untrackable == show_contour /\ var_show_untrackable
        n == Len(res.traces)
        Owners(fr, l) == {i \in 1..n : res.traces[i][fr] = l}
        Last(S) == CHOOSE i \in S : \A j \in S : j <= i
        Region(fr, l) ==
            IF Owners(fr, l) = {}
            THEN [name |-> 0, color |-> ROI_COLOR_UNTRACKABLE,
                  stroke_width |-> None, visible |-> show_untrackable,
                  pos |-> res.props[fr][l]]
            ELSE [name |-> Last(Owners(fr, l)),
                  color |-> IF res.traces_selection[Last(Owners(fr, l))]
                            THEN ROI_COLOR_SELECTED ELSE ROI_COLOR_DESELECTED,
                  stroke_width |-> None, visible |-> show_contour,
                  pos |-> res.props[fr][l]]
    IN
    /\ tk_rois' = [fr \in 1..Len(res.props) |->
                      [l \in DOMAIN res.props[fr] |-> Region(fr, l)]]
    /\ traces' = [i \in 1..n |-> [roi |-> res.traces[i],
                                  select |-> res.traces_selection[i],
                                  highlight |-> FALSE]]
    /\ hl_changed' = {}
    /\ tk_ret' = None
    /\ UNCHANGED <<var_show_roi_contours, var_show_untrackable, i_frame>>

\* for fr, roi in enumerate(tr['roi']): self.rois[fr][roi].<attribute> = ...
\* (None leaves the attribute alone)
Paint(rs, labels, stroke_width, color) ==
    [fr \in DOMAIN rs |-> [l \in DOMAIN rs[fr] |->
        IF fr \in DOMAIN labels /\ labels[fr] = l
        THEN [rs[fr][l] EXCEPT
                !.stroke_width = IF stroke_width = None THEN @ ELSE stroke_width,
                !.color = IF color = None THEN @ ELSE Val(color)]
        ELSE rs[fr][l]]]

\* The part of Main_Tk that highlight_trace and select_trace work on
TkState == [traces |-> traces, rois |-> tk_rois, changed |-> hl_changed]

RECURSIVE HighlightTrace(_, _, _, _)
RECURSIVE HighlightEach(_, _, _, _, _)
RECURSIVE SelectTrace(_, _, _, _)
RECURSIVE SelectEach(_, _, _)

\* highlight_trace, lines 793-797: one call per trace
HighlightEach(s, trace, val, update_select, is_selection_updated) ==
    IF trace = <<>> THEN [s |-> s, ret |-> Some(is_selection_updated)]
    ELSE LET r == HighlightTrace(s, <<Head(trace)>>, val, update_select) IN
         HighlightEach(r.s, Tail(trace), val, update_select,
                       is_selection_updated \/ (update_select /\ r.ret = Some(TRUE)))

\* highlight_trace (lines 791-836); val is None (toggle) or a Boolean
HighlightTrace(s, trace, val, update_select) ==
    IF Len(trace) > 1 THEN HighlightEach(s, trace, val, update_select, FALSE)
    ELSE
    LET name == trace[1]
        tr == s.traces[name]
        v == IF val = None THEN ~tr.highlight ELSE Val(val)
        selects == ~tr.select /\ v /\ update_select
        s1 == IF selects THEN SelectTrace(s, <<name>>, Some(TRUE), FALSE).s ELSE s
        select == s1.traces[name].select
        color == IF v THEN (IF select THEN ROI_COLOR_HIGHLIGHT ELSE ROI_COLOR_DESELECTED)
                 ELSE (IF select THEN ROI_COLOR_SELECTED ELSE ROI_COLOR_DESELECTED)
    IN  IF val # None /\ Val(val) = tr.highlight THEN [s |-> s, ret |-> None]
        ELSE [s |-> [traces |-> [s1.traces EXCEPT ![name].highlight = v],
                     rois |-> Paint(s1.rois, tr.roi,
                                    Some(IF v THEN ROI_WIDTH_HIGHLIGHT ELSE ROI_WIDTH),
                                    Some(color)),
                     changed |-> s1.changed \cup {name}],
              ret |-> Some(selects)]

\* select_trace, lines 850-853: one call per trace, update_highlight is not
\* passed on
SelectEach(s, trace, val) ==
    IF trace = <<>> THEN [s |-> s, ret |-> None]
    ELSE SelectEach(SelectTrace(s, <<Head(trace)>>, val, FALSE).s, Tail(trace), val)

\* A slip: selecting paints the selected colour whatever the highlight is
SelectTracePaintsSelected(s, trace, val, update_highlight) ==
    IF Len(trace) > 1 THEN SelectEach(s, trace, val)
    ELSE
    LET name == trace[1]
        tr == s.traces[name]
        v == IF val = None THEN ~tr.select ELSE Val(val)
        s1 == [s EXCEPT !.traces[name].select = v]
        s2 == IF update_highlight
              THEN HighlightTrace(s1, <<name>>, Some(FALSE), FALSE).s ELSE s1
    IN  IF val # None /\ Val(val) = tr.select THEN [s |-> s, ret |-> None]
        ELSE IF v
        THEN [s |-> [s1 EXCEPT !.rois = Paint(s1.rois, tr.roi, None,
                                              Some(ROI_COLOR_SELECTED))],
              ret |-> None]
        ELSE [s |-> [s2 EXCEPT !.rois = Paint(s2.rois, tr.roi, None,
                                              Some(ROI_COLOR_DESELECTED))],
              ret |-> None]

\* select_trace (lines 850-870)
SelectTrace(s, trace, val, update_highlight) ==
    IF Len(trace) > 1 THEN SelectEach(s, trace, val)
    ELSE
    LET name == trace[1]
        tr == s.traces[name]
        v == IF val = None THEN ~tr.select ELSE Val(val)
        s1 == [s EXCEPT !.traces[name].select = v]
        s2 == IF update_highlight
              THEN HighlightTrace(s1, <<name>>, Some(FALSE), FALSE).s ELSE s1
    IN  IF val # None /\ Val(val) = tr.select THEN [s |-> s, ret |-> None]
        ELSE IF v
        THEN [s |-> [s1 EXCEPT !.rois = Paint(s1.rois, tr.roi, None,
                        Some(IF tr.highlight THEN ROI_COLOR_HIGHLIGHT
                             ELSE ROI_COLOR_SELECTED))],
              ret |-> None]
        ELSE [s |-> [s2 EXCEPT !.rois = Paint(s2.rois, tr.roi, None,
                                              Some(ROI_COLOR_DESELECTED))],
              ret |-> None]

\* The state a call leaves behind
TkResult(r) ==
    /\ traces' = r.s.traces
    /\ tk_rois' = r.s.rois
    /\ hl_changed' = r.s.changed
    /\ tk_ret' = r.ret
    /\ UNCHANGED <<engineVars, chanVars, openerVars, var_show_roi_contours, var_show_untrackable,
                   i_frame>>

\* The names a call is given: one trace, or two different ones
TraceArgs == { <<a>> : a \in DOMAIN traces }
             \cup { q \in (DOMAIN traces) \X (DOMAIN traces) : q[1] # q[2] }

HighlightTraceCall(trace, val, update_select) ==
    /\ trace \in TraceArgs
    /\ \E r \in {HighlightTrace(TkState, trace, val, update_select)} : TkResult(r)

SelectTraceCall(trace, val, update_highlight) ==
    /\ trace \in TraceArgs
    /\ \E r \in {SelectTrace(TkState, trace, val, update_highlight)} : TkResult(r)

\* The handlers of "Display cell contours" and "Display untracked cells"
\* (lines 727-739 and 755-763). For a ROI without a name line 737 assigns
\* the local name roi_visible, so the ROI keeps its visible flag.
UpdateShowRoiContours(rs, show_contours) ==
    [fr \in DOMAIN rs |-> [l \in DOMAIN rs[fr] |->
        IF rs[fr][l].name # 0 THEN [rs[fr][l] EXCEPT !.visible = show_contours]
        ELSE rs[fr][l]]]

UpdateShowUntrackable(rs, show) ==
    [fr \in DOMAIN rs |-> [l \in DOMAIN rs[fr] |->
        IF rs[fr][l].name = 0 THEN [rs[fr][l] EXCEPT !.visible = show]
        ELSE rs[fr][l]]]

\* The menu entry (line 183) or the Insert key (lines 230-231) writes the
\* variable, and the write runs the handler (line 156). Before track_stack
\* there is nothing to iterate over and the handler ends with a TypeError
\* that Tk reports; the variable keeps its new value.
ToggleShowRoiContours ==
    /\ var_show_roi_contours' = ~var_show_roi_contours
    /\ tk_rois' = UpdateShowRoiContours(tk_rois, var_show_roi_contours')
    /\ tk_ret' = None
    /\ UNCHANGED <<engineVars, chanVars, openerVars, traces, var_show_untrackable, i_frame, hl_changed>>

\* line 185, handler registered on line 160
ToggleShowUntrackable ==
    /\ var_show_untrackable' = ~var_show_untrackable
    /\ tk_rois' = UpdateShowUntrackable(tk_rois,
                      var_show_untrackable' /\ var_show_roi_contours)
    /\ tk_ret' = None
    /\ UNCHANGED <<engineVars, chanVars, openerVars, traces, var_show_roi_contours, i_frame, hl_changed>>

\* The viewer shows another frame (stackviewer.i_frame, read on line 978)
ViewerFrame(fr) ==
    /\ fr \in 0..(Len(tk_rois) - 1)
    /\ fr # i_frame
    /\ i_frame' = fr
    /\ UNCHANGED <<engineVars, chanVars, openerVars, traces, tk_rois, var_show_roi_contours,
                   var_show_untrackable, hl_changed, tk_ret>>

\* traces_sorted (lines 976-984): the names by the position of their ROI in
\* the displayed frame; sorted() is stable, equal positions stay in
\* dictionary order; (y_min, x_min) tuples compare by their first
\* components, then the second
TracesSorted(s, fr) ==
    LET TupleLess(p, q) == p[1] < q[1] \/ (p[1] = q[1] /\ p[2] < q[2])
        Pos(name) == s.rois[fr + 1][s.traces[name].roi[fr + 1]].pos
        Precedes(a, b) == TupleLess(Pos(a), Pos(b)) \/ (Pos(a) = Pos(b) /\ a < b)
        names == DOMAIN s.traces
    IN  [k \in 1..Len(s.traces) |->
            CHOOSE b \in names : Cardinality({a \in names : Precedes(a, b)}) = k - 1]

\* line 937: the positions in cells_sorted of the highlighted traces, in
\* dictionary order (list.index counts from 0)
CellsHighlight(s, cells_sorted) ==
    LET IndexOf(seq, x) == (CHOOSE k \in DOMAIN seq : seq[k] = x) - 1
        RECURSIVE Walk(_)
        Walk(name) ==
            IF name > Len(s.traces) THEN <<>>
            ELSE (IF s.traces[name].highlight
                  THEN <<IndexOf(cells_sorted, name)>> ELSE <<>>) \o Walk(name + 1)
    IN  Walk(1)

\* A slip: Up and Down leave the old highlights in place
KeyHighlightCellKeepsOld(keysym) ==
    LET s == TkState
        cells_sorted == TracesSorted(s, i_frame)
        cells_highlight == CellsHighlight(s, cells_sorted)
        names == [k \in DOMAIN cells_highlight |-> cells_sorted[cells_highlight[k] + 1]]
        last == Len(cells_sorted)
        cleared == s
        up == IF cells_highlight = <<>> THEN cells_sorted[last]
              ELSE IF cells_highlight[1] - 1 < 0 THEN cells_sorted[last]
              ELSE cells_sorted[(cells_highlight[1] - 1) + 1]
        down == IF cells_highlight = <<>> THEN cells_sorted[1]
                ELSE IF cells_highlight[Len(cells_highlight)] + 1 >= last
                THEN cells_sorted[1]
                ELSE cells_sorted[(cells_highlight[Len(cells_highlight)] + 1) + 1]
    IN
    /\ traces # <<>>
    /\ \E r \in {IF keysym = "Up"
                  THEN HighlightTrace(cleared, <<up>>, Some(TRUE), FALSE)
                  ELSE IF keysym = "Down"
                  THEN HighlightTrace(cleared, <<down>>, Some(TRUE), FALSE)
                  ELSE SelectEach(s, names, None)} :
          TkResult([s |-> r.s, ret |-> None])

\* _key_highlight_cell (lines 928-974); the keypad keys run the same branches
KeyHighlightCell(keysym) ==
    LET s == TkState
        cells_sorted == TracesSorted(s, i_frame)
        cells_highlight == CellsHighlight(s, cells_sorted)
        names == [k \in DOMAIN cells_highlight |-> cells_sorted[cells_highlight[k] + 1]]
        last == Len(cells_sorted)
        cleared == HighlightEach(s, names, Some(FALSE), FALSE, FALSE).s
        up == IF cells_highlight = <<>> THEN cells_sorted[last]
              ELSE IF cells_highlight[1] - 1 < 0 THEN cells_sorted[last]
              ELSE cells_sorted[(cells_highlight[1] - 1) + 1]
        down == IF cells_highlight = <<>> THEN cells_sorted[1]
                ELSE IF cells_highlight[Len(cells_highlight)] + 1 >= last
                THEN cells_sorted[1]
                ELSE cells_sorted[(cells_highlight[Len(cells_highlight)] + 1) + 1]
    IN
    /\ traces # <<>>
    /\ \E r \in {IF keysym = "Up"
                  THEN HighlightTrace(cleared, <<up>>, Some(TRUE), FALSE)
                  ELSE IF keysym = "Down"
                  THEN HighlightTrace(cleared, <<down>>, Some(TRUE), FALSE)
                  ELSE SelectEach(s, names, None)} :
          TkResult([s |-> r.s, ret |-> None])

-----------------------------------------------------------------------------
(* Main_Tk: the channel buttons. channel_selection maps a channel index of   *)
(* the metastack to its type and its val (displayed or not); channel_order   *)
(* lists the keys in the order of the buttons.                               *)

MaxChannels == 3

ChannelTypes == {"None", "Phase contrast", "Fluorescence", "Segmentation"}

\* lines 479-482: for i in channels: ch['val'] ^= True
RECURSIVE ToggleEach(_, _)
ToggleEach(sel, channels) ==
    IF channels = <<>> THEN sel
    ELSE ToggleEach([sel EXCEPT ![Head(channels)].val = ~@], Tail(channels))

\* _change_channel_selection (lines 473-495); channels is the tuple of the
\* positional arguments, default is None or a number. What comes back is the
\* selection and the error the call ended with, if any.
ChangeChannelSelection(sel, ord, channels, toggle, default) ==
    LET chosen == {channels[k] : k \in DOMAIN channels}
        sel1 == IF channels = <<>> THEN sel
                ELSE IF toggle THEN ToggleEach(sel, channels)
                ELSE [i \in DOMAIN sel |-> [sel[i] EXCEPT !.val = (i \in chosen)]]
        has_selected == IF channels = <<>> THEN FALSE
                        ELSE IF toggle THEN sel1[channels[Len(channels)]].val
                        ELSE chosen \cap DOMAIN sel # {}
        ix == PyIndex(IF default = None THEN 0 ELSE Val(default), Len(ord))
    IN  IF has_selected \/ \E i \in DOMAIN sel1 : sel1[i].val
        THEN [sel |-> sel1, err |-> None]
        ELSE IF ix.tag = "raise" THEN [sel |-> sel1, err |-> Some("IndexError")]
        ELSE IF ord[ix.val + 1] \notin DOMAIN sel1
        THEN [sel |-> sel1, err |-> Some("KeyError")]
        ELSE [sel |-> [sel1 EXCEPT ![ord[ix.val + 1]].val = TRUE], err |-> None]

\* load_metastack, lines 522-546: the buttons for the channels of the
\* metastack. `not idx_phasecontrast` and `not idx_segmentation` hold for
\* None and for index 0 alike. st holds idx_phasecontrast, idx_fluorescence,
\* idx_segmentation and the channel_selection built so far.
RECURSIVE ScanChannels(_, _, _)
ScanChannels(types, i, st) ==
    IF i >= Len(types) THEN st
    ELSE LET type == types[i + 1]
             Not(idx) == idx = None \/ idx = Some(0)
             button == [st EXCEPT !.sel = (i :> [type |-> type, val |-> FALSE]) @@ @]
         IN  IF type = "Phase contrast" /\ Not(st.pc)
             THEN ScanChannels(types, i + 1, [button EXCEPT !.pc = Some(i)])
             ELSE IF type = "Fluorescence"
             THEN ScanChannels(types, i + 1, [button EXCEPT !.fl = Append(@, i)])
             ELSE IF type = "Segmentation" /\ Not(st.seg)
             THEN ScanChannels(types, i + 1, [button EXCEPT !.seg = Some(i)])
             ELSE ScanChannels(types, i + 1, st)

\* load_metastack (lines 501-560) for a metastack whose channels have the
\* given types. With buttons left from an earlier metastack the loop of
\* lines 514-516 deletes from the dictionary it iterates over: the first
\* key goes and the next iteration raises RuntimeError.
LoadMetastack(types) ==
    LET st == ScanChannels(types, 0, [pc |-> None, fl |-> <<>>, seg |-> None,
                                      sel |-> << >>])
        ord == st.pc \o st.fl \o st.seg
        r == ChangeChannelSelection(st.sel, ord, <<>>, FALSE, None)
        first == CHOOSE k \in DOMAIN channel_selection :
                     \A j \in DOMAIN channel_selection : k <= j
    IN
    /\ IF DOMAIN channel_selection # {}
       THEN /\ channel_order' = <<>>
            /\ channel_selection' = [k \in DOMAIN channel_selection \ {first} |->
                                        channel_selection[k]]
            /\ tk_err' = Some("RuntimeError")
       ELSE /\ channel_order' = ord
            /\ channel_selection' = r.sel
            /\ tk_err' = r.err
    /\ UNCHANGED <<engineVars, tkVars, openerVars>>

\* The callback of button i (lines 449-461): a click, with or without the
\* control key
ChanselClick(i, ctrl) ==
    /\ i \in DOMAIN channel_selection
    /\ \E r \in {ChangeChannelSelection(channel_selection, channel_order,
                                         <<i>>, ctrl, Some(i))} :
          /\ channel_selection' = r.sel
          /\ tk_err' = r.err
    /\ UNCHANGED <<engineVars, tkVars, openerVars, channel_order>>

\* _key_scroll_channels (lines 901-926): the channel that Right or Left asks
\* for (None when the handler returns at once)
ScrollTarget(sel, ord, keysym) ==
    LET chan_disp == SelectSeq(ord, LAMBDA i : sel[i].val) IN
    IF ord = <<>> THEN None
    ELSE IF keysym = "Right"
    THEN IF chan_disp # <<>>
         THEN (IF chan_disp[Len(chan_disp)] + 1 >= Len(ord) THEN Some(0)
               ELSE Some(chan_disp[Len(chan_disp)] + 1))
         ELSE Some(0)
    ELSE IF chan_disp # <<>>
         THEN (IF chan_disp[1] - 1 < 0 THEN Some(Len(ord) - 1)
               ELSE Some(chan_disp[1] - 1))
         ELSE Some(Len(ord) - 1)

\* _key_scroll_channels as a whole, from a given selection
KeyScrollResult(sel, ord, keysym) ==
    LET new_chan == ScrollTarget(sel, ord, keysym) IN
    IF new_chan = None THEN [sel |-> sel, err |-> None]
    ELSE ChangeChannelSelection(sel, ord, <<Val(new_chan)>>, FALSE, None)

KeyScrollChannels(keysym) ==
    /\ \E r \in {KeyScrollResult(channel_selection, channel_order, keysym)} :
          /\ channel_selection' = r.sel
          /\ tk_err' = r.err
    /\ UNCHANGED <<engineVars, tkVars, openerVars, channel_order>>

-----------------------------------------------------------------------------
(* StackOpener (main_window.py lines 1022-1341): the dialog's list of opened *)
(* Stacks and its list of chosen channels. An element of op_stacks stands    *)
(* for the dict {'name', 'dir', 'stack', 'n_channels'} of one Stack; every   *)
(* file is opened at most once, so the path a Stack was opened with tells    *)
(* the Stack objects apart. stack_closes counts the calls of close() on each *)
(* of them. op_cb is None until the dialog has called its callback, then     *)
(* Some(None) for callback(None) and Some(Some(ret)) for callback(ret).      *)

MaxOpened == 2
MaxOpChannels == 2

\* open_stack (lines 1154-1167): Stack(fn) for the chosen file is appended
\* and its row selected (select=tk.END)
OpenStack(s) ==
    LET n == Cardinality(DOMAIN stack_closes) + 1
        fn == <<"s1.tif", "s2.tif", "s3.tif", "s4.tif">>[n]
    IN
    /\ op_cb = None
    /\ n <= MaxOpened
    /\ op_stacks' = Append(op_stacks, [s EXCEPT !.path = fn])
    /\ stack_closes' = (fn :> 0) @@ stack_closes
    /\ op_sel' = Some(Len(op_stacks))
    /\ UNCHANGED <<engineVars, tkVars, chanVars, op_channels, op_cb>>

\* A click on row i of stack_list (rows count from 0)
SelectStack(i) ==
    /\ op_cb = None
    /\ i < Len(op_stacks)
    /\ op_sel' = Some(i)
    /\ UNCHANGED <<engineVars, tkVars, chanVars, op_stacks, op_channels, op_cb,
                   stack_closes>>

\* add_chan (lines 1232-1243); without a selected row nothing is added
AddChan(i_channel, label, type_) ==
    /\ op_cb = None
    /\ op_sel # None
    /\ Len(op_channels) < MaxOpChannels
    /\ op_channels' = Append(op_channels,
                             [stack |-> op_stacks[Val(op_sel) + 1],
                              i_channel |-> i_channel,
                              label |-> label,
                              type |-> type_])
    /\ UNCHANGED <<engineVars, tkVars, chanVars, op_stacks, op_sel, op_cb,
                   stack_closes>>

\* del_chan(i) and refresh_channels (lines 1245-1303): i is used as an index
\* of self.stacks; the channels of that Stack are marked and then popped
DelChan(stacks, channels, i) ==
    IF i >= Len(stacks)
    THEN [err |-> Some("IndexError"), channels |-> channels]
    ELSE [err |-> None,
          channels |-> SelectSeq(channels, LAMBDA ch : ch.stack # stacks[i + 1])]

\* The "X" button in grid row `row` of the channel list (line 1280)
ChanDelClick(row) ==
    /\ op_cb = None
    /\ row \in 1..Len(op_channels)
    /\ \E r \in {DelChan(op_stacks, op_channels, row - 1)} :
          /\ op_channels' = r.channels
          /\ tk_err' = r.err
    /\ UNCHANGED <<engineVars, tkVars, channel_selection, channel_order, op_stacks,
                   op_sel, op_cb, stack_closes>>

\* remove_stack (lines 1169-1181)
RemoveStack ==
    /\ op_cb = None
    /\ op_sel # None
    /\ LET sel == Val(op_sel)
           r == DelChan(op_stacks, op_channels, sel)
       IN  /\ op_channels' = r.channels
           /\ op_stacks' = [n \in 1..(Len(op_stacks) - 1) |->
                               IF n <= sel THEN op_stacks[n] ELSE op_stacks[n + 1]]
           /\ stack_closes' = [stack_closes EXCEPT ![op_stacks[sel + 1].path] = @ + 1]
    /\ op_sel' = None
    /\ UNCHANGED <<engineVars, tkVars, chanVars, op_cb>>

\* cancel (lines 1305-1315); an exception of close() is swallowed
Cancel ==
    /\ op_cb = None
    /\ stack_closes' = [p \in DOMAIN stack_closes |->
                           IF \E n \in DOMAIN op_stacks : op_stacks[n].path = p
                           THEN stack_closes[p] + 1 ELSE stack_closes[p]]
    /\ op_cb' = Some(None)
    /\ UNCHANGED <<engineVars, tkVars, chanVars, op_stacks, op_channels, op_sel>>

\* A slip: OK closes the Stacks of the chosen channels as well
FinishClosesAll ==
    /\ op_cb = None
    /\ stack_closes' = [p \in DOMAIN stack_closes |->
                           IF \E n \in DOMAIN op_stacks : op_stacks[n].path = p
                           THEN stack_closes[p] + 1 ELSE stack_closes[p]]
    /\ op_cb' = Some(Some(op_channels))
    /\ UNCHANGED <<engineVars, tkVars, chanVars, op_stacks, op_channels, op_sel>>

\* finish (lines 1317-1341): the Stacks no channel uses are closed
Finish ==
    LET ret == [n \in DOMAIN op_channels |->
                   [stack |-> op_channels[n].stack,
                    i_channel |-> op_channels[n].i_channel,
                    label |-> op_channels[n].label,
                    type |-> op_channels[n].type]]
        used_stacks == {ret[n].stack.path : n \in DOMAIN ret}
    IN
    /\ op_cb = None
    /\ stack_closes' = [p \in DOMAIN stack_closes |->
                           IF /\ \E n \in DOMAIN op_stacks : op_stacks[n].path = p
                              /\ p \notin used_stacks
                           THEN stack_closes[p] + 1 ELSE stack_closes[p]]
    /\ op_cb' = Some(Some(ret))
    /\ UNCHANGED <<engineVars, tkVars, chanVars, op_stacks, op_channels, op_sel>>

-----------------------------------------------------------------------------
(* Main_Tk.open_metastack (main_window.py lines 326-366), the callback of    *)
(* the dialog. self.track is True from __init__ (line 144) and never         *)
(* changed, so every entry of segmentation type is tracked.                  *)

\* Has close() been called on the Stack the record refers to?
Closed(s) == s.path \in DOMAIN stack_closes /\ stack_closes[s.path] > 0

\* What a reference to the Stack gives now: close() leaves the Stack empty
\* (stack.py lines 39-58). The record keeps the path the Stack was opened
\* with to tell the objects apart; the path property of a closed Stack is
\* None, written "None" where it is used as a name.
StackNow(s) ==
    IF Closed(s) THEN [s EXCEPT !.width = 0, !.height = 0, !.n_frames = 0] ELSE s

\* lines 326-332
OpenMetastack(t, data) ==
    /\ Start(t, "open_metastack", data, IF data = <<>> THEN "ret" ELSE "om_stack")
    /\ UNCHANGED <<winVars, stackVars, rois, info, image_lock, roi_lock, listeners,
                   next_lid, bufs, tmp_open, tmp_made>>

\* lines 334-342. A segmentation entry is tracked, which replaces the traces
\* and ROIs of the window, the label Stack of the tracker is added as
\* 'segmented_stack' and the entry's own Stack is closed; any other entry's
\* Stack is added under its path. Tracking a Stack that is already closed
\* ends in an exception, at the latest in close() (stack.py line 125), after
\* the tracker failed or found nothing.
OmAddStack(t) ==
    LET d == th[t].arg[th[t].i + 1]
        m == IF th[t].meta = None THEN EmptyMeta ELSE Val(th[t].meta)
        nothing == [props |-> <<>>, traces |-> <<>>, traces_selection |-> <<>>]
        name == IF Closed(d.stack) THEN "None" ELSE d.stack.path
        closes == IF d.stack.path \in DOMAIN stack_closes
                  THEN stack_closes[d.stack.path] ELSE 0
    IN
    /\ th[t].pc = "om_stack"
    /\ IF th[t].i >= Len(th[t].arg)
       THEN /\ th' = [th EXCEPT ![t].pc = "ret"]
            /\ UNCHANGED winVars
       ELSE IF d.type # "Segmentation"
       THEN /\ th' = [th EXCEPT ![t].meta = Some(MetaAddStack(m, StackNow(d.stack), name)),
                                 ![t].pc = "om_channel"]
            /\ UNCHANGED winVars
       ELSE IF Closed(d.stack)
       THEN /\ th' = [th EXCEPT ![t].err = Some("Exception"), ![t].pc = "ret"]
            /\ \/ UNCHANGED tkVars
               \/ TrackStack(nothing)
            /\ UNCHANGED <<chanVars, openerVars>>
       ELSE /\ \E res \in TrackerResults : TrackStack(res)
            /\ th' = [th EXCEPT ![t].meta =
                                    Some(MetaAddStack(m, [d.stack EXCEPT !.path = ""],
                                                      "segmented_stack")),
                                 ![t].pc = "om_channel"]
            /\ stack_closes' = (d.stack.path :> closes + 1) @@ stack_closes
            /\ UNCHANGED <<chanVars, op_stacks, op_channels, op_sel, op_cb>>
    /\ UNCHANGED <<stackVars, rois, info, image_lock, roi_lock, listeners,
                   next_lid, bufs, tmp_open, tmp_made, budget>>

\* lines 343-347: the channel is added under the name the Stack was just
\* added with; an exception of add_channel leaves open_metastack
OmAddChannel(t) ==
    LET d == th[t].arg[th[t].i + 1]
        added == Val(th[t].meta).stacks
        name == added[Len(added)].name
        r == MetaAddChannel(Val(th[t].meta), name, d.i_channel, d.label, d.type)
    IN
    /\ th[t].pc = "om_channel"
    /\ th' = IF r.err # None
             THEN [th EXCEPT ![t].err = r.err, ![t].meta = Some(r.meta), ![t].pc = "ret"]
             ELSE [th EXCEPT ![t].meta = Some(r.meta), ![t].i = @ + 1,
                             ![t].pc = "om_stack"]
    /\ UNCHANGED <<winVars, stackVars, rois, info, image_lock, roi_lock, listeners,
                   next_lid, bufs, tmp_open, tmp_made, budget>>

-----------------------------------------------------------------------------
(* Specifications                                                            *)

\* Stack.__init__ without a path: _clear_state() on a Stack nobody else knows
Constructed ==
    /\ path = None /\ img = None /\ tmpfile = None
    /\ mode = None /\ order = None
    /\ width = 0 /\ height = 0
    /\ n_images = 0 /\ n_frames = 0 /\ n_channels = 0
    /\ rois = NoRois /\ info = NoInfo
    /\ image_lock = Free /\ roi_lock = Free
    /\ listeners = <<>> /\ next_lid = 1
    /\ bufs = [id \in {} |-> <<>>]
    /\ tmp_open = {} /\ tmp_made = 0

\* The steps inside the operations
LoadSteps(t) ==
    \/ LoadAcquire(t) \/ LoadOpen(t) \/ LoadBasic(t) \/ LoadParse(t)
    \/ LoadAlloc(t) \/ LoadFill(t) \/ LoadExcept(t) \/ LoadFinally(t)
    \/ LoadRelease(t)

CloseSteps(t) ==
    \/ CloseAcquire(t) \/ CloseImg(t) \/ CloseTmp(t) \/ CloseRelease(t)

ClearSteps(t) ==
    \/ ClearImage(t) \/ ClearRoisInfo(t) \/ ClearNotify(t)
    \/ Callback(t) \/ NotifyDone(t)

RoiSteps(t) ==
    \/ SetRoisAcquire(t) \/ SetRoisBody(t)
    \/ ClearRoisAcquire(t) \/ ClearRoisBody(t) \/ RoiRelease(t)

CopySteps(t) ==
    \/ CopyAcquire(t) \/ CopyView(t) \/ CopyPixels(t) \/ CopyRelease(t)

FrameTkSteps(t) ==
    \/ FrameTkAcquire(t) \/ FrameTkImage(t) \/ FrameTkRelease(t)

Internal(t) ==
    \/ LoadSteps(t) \/ CloseSteps(t) \/ ClearSteps(t) \/ RoiSteps(t)
    \/ CopySteps(t) \/ Return(t)

Dims == 0..MaxDim

\* One thread, every operation, a few files
Init ==
    /\ Constructed
    /\ MainTkInit
    /\ th = [t \in {1} |-> IdleFrame]
    /\ budget = MaxOps

Next ==
    \E t \in {1} :
        \/ \E f \in FilesSeq : LoadCall(t, f)
        \/ CloseCall(t)
        \/ \E kind \in Kinds : AddListener(t, kind)
        \/ \E n \in 1..Len(listeners) : DeleteListener(t, listeners[n].id)
        \/ \E r \in RoiArrays, ty \in RoiTypes, key \in FrameKeys :
               SetRoisCall(t, r, ty, key)
        \/ \E frame \in {None} \cup {Some(key) : key \in FrameKeys} :
               ClearRoisCall(t, frame) \/ GetRois(t, frame)
        \/ \E name \in Properties : ReadProperty(t, name)
        \/ \E c \in Dims, f \in Dims :
               GetImage(t, c, f) \/ CopyCall(t, c, f) \/ ConvertCall(t, Some(c), Some(f), None)
        \/ \E i \in 0..MaxPages : ConvertCall(t, None, None, Some(i))
        \/ \E c \in 0..1, fcn \in BOOLEAN : FrameTkCall(t, c, 0, fcn)
        \/ UpdateInfo(t, "note", "v")
        \/ FrameTkSteps(t)
        \/ Internal(t)

Spec == Init /\ [][Next]_vars

\* One thread, load and close only, every file
InitLoad ==
    /\ Constructed
    /\ MainTkInit
    /\ th = [t \in {1} |-> IdleFrame]
    /\ budget = MaxLoadOps

NextLoad ==
    \E t \in {1} :
        \/ \E f \in Files : LoadCall(t, f)
        \/ CloseCall(t)
        \/ \E kind \in Kinds : AddListener(t, kind)
        \/ LoadSteps(t) \/ CloseSteps(t) \/ ClearSteps(t) \/ Return(t)
        \/ FinalizeTmp

SpecLoad == InitLoad /\ [][NextLoad]_vars

\* One thread, the ROI map and the listeners only
InitRoi ==
    /\ Constructed
    /\ MainTkInit
    /\ th = [t \in {1} |-> IdleFrame]
    /\ budget = MaxRoiOps

NextRoi ==
    \E t \in {1} :
        \/ \E kind \in Kinds : AddListener(t, kind)
        \/ \E n \in 1..Len(listeners) : DeleteListener(t, listeners[n].id)
        \/ \E r \in RoiArrays, ty \in RoiTypes, key \in FrameKeys :
               SetRoisCall(t, r, ty, key)
        \/ \E frame \in {None} \cup {Some(key) : key \in FrameKeys} :
               ClearRoisCall(t, frame) \/ GetRois(t, frame)
        \/ \E key \in FrameKeys, label \in Labels : RoiGetItem(t, key, label)
        \/ RoiSteps(t) \/ Callback(t) \/ NotifyDone(t) \/ Return(t)

SpecRoi == InitRoi /\ [][NextRoi]_vars

\* One load of every OME description
SizeAttrs == {None, Some(AttrText)} \cup {Some(AttrInt(n)) : n \in (-1)..MaxDim}

DimensionOrders ==
    {<<"X", "Y", "Z", "C", "T">>, <<"X", "Y", "Z", "T", "C">>,
     <<"X", "Y", "C", "T", "Z">>, <<"X", "Y", "C", "Z", "T">>,
     <<"X", "Y", "T", "C", "Z">>, <<"X", "Y", "T", "Z", "C">>,
     <<"X", "Y", "Z", "T">>, <<"X", "Y", "Z", "C">>, <<"X", "Y", "Z">>, <<>>}

OmeDescriptions ==
    {OME(t, c, z, d) : t \in SizeAttrs, c \in SizeAttrs, z \in SizeAttrs,
                       d \in {None} \cup {Some(o) : o \in DimensionOrders}}
    \cup {[OMEDefault EXCEPT !.xml_ok = FALSE],
          [OMEDefault EXCEPT !.has_image = FALSE],
          [OMEDefault EXCEPT !.has_pixels = FALSE]}

InitParse ==
    /\ Constructed
    /\ MainTkInit
    /\ th = [t \in {1} |-> IdleFrame]
    /\ budget = 1

NextParse ==
    \E t \in {1} :
        \/ \E ome \in OmeDescriptions : LoadCall(t, OMEFile("o.tif", 1, 16, ome))
        \/ LoadSteps(t)
        \/ ClearImage(t) \/ ClearRoisInfo(t) \/ ClearNotify(t) \/ NotifyDone(t)
        \/ Return(t)

SpecParse == InitParse /\ [][NextParse]_vars

\* One call of open_metastack with Stacks of every small geometry
StackShapes ==
    {[path |-> p, width |-> w, height |-> h, n_frames |-> nf] :
        p \in {"s.tif"}, w \in 1..2, h \in 1..2, nf \in 1..2}

OpenerEntries ==
    {[stack |-> s, i_channel |-> 0, label |-> "", type |-> ty] :
        s \in StackShapes, ty \in {"Phase contrast", "Fluorescence"}}

\* The entry at position n names its Stack after the position
Numbered(data) ==
    [n \in 1..Len(data) |->
        [data[n] EXCEPT !.stack.path = IF n = 1 THEN "s1.tif"
                                       ELSE IF n = 2 THEN "s2.tif" ELSE "s3.tif"]]

RECURSIVE SeqsUpTo(_, _)
SeqsUpTo(S, n) ==
    IF n = 0 THEN {<<>>}
    ELSE LET shorter == SeqsUpTo(S, n - 1)
         IN  shorter \cup {Append(q, x) : q \in {r \in shorter : Len(r) = n - 1}, x \in S}

InitMeta ==
    /\ Constructed
    /\ MainTkInit
    /\ th = [t \in {1} |-> IdleFrame]
    /\ budget = 1

NextMeta ==
    \E t \in {1} :
        \/ \E data \in SeqsUpTo(OpenerEntries, MaxMetaData) :
               OpenMetastack(t, Numbered(data))
        \/ OmAddStack(t) \/ OmAddChannel(t) \/ Return(t)

SpecMeta == InitMeta /\ [][NextMeta]_vars

\* The main window alone: tracking, clicks and keys on traces
InitTrace ==
    /\ Constructed
    /\ MainTkInit
    /\ th = [t \in {1} |-> IdleFrame]
    /\ budget = 0

NextTrace ==
    \/ \E res \in TrackerResults :
           TrackStack(res) /\ UNCHANGED <<engineVars, chanVars, openerVars>>
    \/ \E a \in 1..MaxTraces, b \in 0..MaxTraces, val \in {None, Some(TRUE), Some(FALSE)},
          update_select \in BOOLEAN :
             HighlightTraceCall(IF b = 0 THEN <<a>> ELSE <<a, b>>, val, update_select)
    \/ \E a \in 1..MaxTraces, b \in 0..MaxTraces, val \in {None, Some(TRUE), Some(FALSE)},
          update_highlight \in BOOLEAN :
             SelectTraceCall(IF b = 0 THEN <<a>> ELSE <<a, b>>, val, update_highlight)
    \/ \E keysym \in {"Up", "Down", "Return"} : KeyHighlightCell(keysym)
    \/ \E fr \in 0..(MaxFrames - 1) : ViewerFrame(fr)

SpecTrace == InitTrace /\ [][NextTrace]_vars

\* The main window alone: a metastack is loaded, channel buttons are clicked
\* and the Right and Left keys scroll through the channels
NextChan ==
    \/ \E types \in SeqsUpTo(ChannelTypes, MaxChannels) \ {<<>>} : LoadMetastack(types)
    \/ \E i \in 0..(MaxChannels - 1), ctrl \in BOOLEAN : ChanselClick(i, ctrl)
    \/ \E keysym \in {"Right", "Left"} : KeyScrollChannels(keysym)

SpecChan == InitTrace /\ [][NextChan]_vars

\* The main window alone: tracking, the keys, and clicks that toggle the
\* highlight of one trace
NextKeys ==
    \/ \E res \in TrackerResults :
           TrackStack(res) /\ UNCHANGED <<engineVars, chanVars, openerVars>>
    \/ \E a \in 1..MaxTraces, update_select \in BOOLEAN :
           HighlightTraceCall(<<a>>, None, update_select)
    \/ \E keysym \in {"Up", "Down", "Return"} : KeyHighlightCell(keysym)
    \/ \E fr \in 0..(MaxFrames - 1) : ViewerFrame(fr)

SpecKeys == InitTrace /\ [][NextKeys]_vars

\* The main window alone: tracking, the two display settings, the keys
NextShow ==
    \/ \E res \in TrackerResults :
           TrackStack(res) /\ UNCHANGED <<engineVars, chanVars, openerVars>>
    \/ ToggleShowRoiContours
    \/ ToggleShowUntrackable
    \/ \E keysym \in {"Up", "Down", "Return"} : KeyHighlightCell(keysym)
    \/ \E fr \in 0..(MaxFrames - 1) : ViewerFrame(fr)

SpecShow == InitTrace /\ [][NextShow]_vars

\* The dialog alone: Stacks of two widths, channels of two types
NextOpener ==
    \/ \E s \in {x \in StackShapes : x.height = 1 /\ x.n_frames = 1} : OpenStack(s)
    \/ \E i \in 0..(MaxOpened - 1) : SelectStack(i)
    \/ \E type_ \in {"Phase contrast", "Segmentation"} : AddChan(0, "", type_)
    \/ \E row \in 1..MaxOpChannels : ChanDelClick(row)
    \/ RemoveStack
    \/ Cancel
    \/ Finish

SpecOpener == InitTrace /\ [][NextOpener]_vars

\* The dialog and its callback open_metastack (line 324), which runs once
NextDialog ==
    \/ NextOpener
    \/ \E t \in {1} :
           \/ /\ op_cb # None
              /\ OpenMetastack(t, IF Val(op_cb) = None THEN <<>> ELSE Val(Val(op_cb)))
           \/ OmAddStack(t) \/ OmAddChannel(t) \/ Return(t)

SpecDialog == InitMeta /\ [][NextDialog]_vars

\* Two threads, few files
InitMT ==
    /\ Constructed
    /\ MainTkInit
    /\ th = [t \in {1, 2} |-> IdleFrame]
    /\ budget = MaxOpsMT

NextMT ==
    \E t \in {1, 2} :
        \/ \E f \in FilesMT : LoadCall(t, f)
        \/ CloseCall(t)
        \/ \E kind \in Kinds : AddListener(t, kind)
        \/ SetRoisCall(t, "R1", "rect", Ellipsis)
        \/ ClearRoisCall(t, None)
        \/ GetRois(t, Some(Ellipsis))
        \/ \E name \in Properties : ReadProperty(t, name)
        \/ \E c \in 0..1 : GetImage(t, c, 0) \/ CopyCall(t, c, 0)
        \/ ConvertCall(t, None, None, Some(1))
        \/ Internal(t)

SpecMT == InitMT /\ [][NextMT]_vars

\* convert_position on a loaded Stack of every small shape
FilledBuffer(ord, nc, nf, npix) ==
    [nc |-> nc, nf |-> nf,
     data |-> [p \in (0..(nc-1)) \X (0..(nf-1)) |->
                 [k \in 1..npix |->
                    Pixel(IF ord = "tc" THEN p[2] * nc + p[1] ELSE p[1] * nf + p[2],
                          k - 1)]]]

InitConv ==
    \E ord \in {"tc", "ct"}, nc \in 1..MaxConvC, nf \in 1..MaxConvF :
        /\ path = Some("a.tif") /\ img = Some(1) /\ tmpfile = Some(1)
        /\ mode = Some(8) /\ order = Some(ord)
        /\ width = 2 /\ height = 1
        /\ n_images = nc * nf /\ n_frames = nf /\ n_channels = nc
        /\ rois = NoRois /\ info = NoInfo
        /\ image_lock = Free /\ roi_lock = Free
        /\ listeners = <<>> /\ next_lid = 1
        /\ bufs = (1 :> FilledBuffer(ord, nc, nf, 2))
        /\ tmp_open = {1} /\ tmp_made = 1
        /\ th = [t \in {1} |-> IdleFrame]
        /\ budget = 1
        /\ MainTkInit

ConvInts == -1..(MaxConvC * MaxConvF + 1)

NextConv ==
    \E t \in {1} :
        \/ \E c \in -1..(MaxConvC + 1), f \in -1..(MaxConvF + 1) :
               ConvertCall(t, Some(c), Some(f), None)
        \/ \E i \in ConvInts : ConvertCall(t, None, None, Some(i))
        \/ \E c \in {None, Some(0)}, f \in {None, Some(0)}, i \in {None, Some(0)} :
               ConvertCall(t, c, f, i)
        \/ Return(t)

SpecConv == InitConv /\ [][NextConv]_vars

-----------------------------------------------------------------------------
(* Properties of convert_position, checked under SpecConv                    *)

\* A call of convert_position has just returned or raised
Converted(t) == th[t].pc = "ret" /\ th[t].op = "convert_position"
ToPair(t) == Converted(t) /\ th[t].arg.channel = None /\ th[t].arg.frame = None
                          /\ th[t].arg.image # None
ToIndex(t) == Converted(t) /\ th[t].arg.channel # None /\ th[t].arg.frame # None

ValidImage(i) == 0 <= i /\ i < n_channels * n_frames
ValidPair(c, f) == 0 <= c /\ c < n_channels /\ 0 <= f /\ f < n_frames

\* C3: in both orders, a valid image index converts to a channel and a frame
\* inside the stack's shape which convert back to the index, and a valid
\* (channel, frame) converts to an index which converts back to the pair.
C3_Bijective ==
    \A t \in Threads :
        /\ (ToPair(t) /\ ValidImage(Val(th[t].arg.image))) =>
              /\ th[t].ret # None
              /\ Len(Val(th[t].ret)) = 2
              /\ ValidPair(Val(th[t].ret)[1], Val(th[t].ret)[2])
              /\ ConvertPosition(order, n_channels, n_frames, Some(Val(th[t].ret)[1]),
                                 Some(Val(th[t].ret)[2]), None)
                   = Ret(Val(th[t].arg.image))
        /\ (ToIndex(t) /\ ValidPair(Val(th[t].arg.channel), Val(th[t].arg.frame))) =>
              /\ th[t].ret # None
              /\ ConvertPosition(order, n_channels, n_frames, None, None, th[t].ret)
                   = Ret(<<Val(th[t].arg.channel), Val(th[t].arg.frame)>>)

C3_Witness ==
    /\ ToPair(1) /\ order = Some("ct") /\ n_channels = 2 /\ n_frames = 3
    /\ th[1].arg.image = Some(4) /\ th[1].ret = Some(<<1, 1>>)

\* C4: frame-major 'tc': index = frame * n_channels + channel, channel =
\* index mod n_channels, frame = index div n_channels; channel-major 'ct':
\* index = channel * n_frames + frame, frame = index mod n_frames, channel =
\* index div n_frames; so 'tc' with 3 channels and 5 frames maps image 7 to
\* channel 1, frame 2 and back.
C4_Formulas ==
    \A t \in Threads :
        /\ (ToPair(t) /\ order = Some("tc")) =>
              th[t].ret = Some(<<Val(th[t].arg.image) % n_channels,
                                 Val(th[t].arg.image) \div n_channels>>)
        /\ (ToPair(t) /\ order = Some("ct")) =>
              th[t].ret = Some(<<Val(th[t].arg.image) \div n_frames,
                                 Val(th[t].arg.image) % n_frames>>)
        /\ (ToIndex(t) /\ order = Some("tc")) =>
              th[t].ret = Some(Val(th[t].arg.frame) * n_channels + Val(th[t].arg.channel))
        /\ (ToIndex(t) /\ order = Some("ct")) =>
              th[t].ret = Some(Val(th[t].arg.channel) * n_frames + Val(th[t].arg.frame))
        /\ (order = Some("tc") /\ n_channels = 3 /\ n_frames = 5) =>
              /\ (ToPair(t) /\ th[t].arg.image = Some(7)) => th[t].ret = Some(<<1, 2>>)
              /\ (ToIndex(t) /\ th[t].arg.channel = Some(1) /\ th[t].arg.frame = Some(2))
                    => th[t].ret = Some(7)

C4_Witness ==
    /\ ToIndex(1) /\ order = Some("tc") /\ n_channels = 3 /\ n_frames = 5
    /\ th[1].arg.channel = Some(1) /\ th[1].arg.frame = Some(2)
    /\ th[1].ret = Some(7)

\* C5: on a loaded Stack, a channel or frame outside the shape, or an image
\* index outside [0, n_channels * n_frames), raises IndexError.
C5_OutOfRangeRaises ==
    \A t \in Threads :
        /\ (ToPair(t) /\ ~ValidImage(Val(th[t].arg.image))) =>
              th[t].err = Some("IndexError")
        /\ (ToIndex(t) /\ ~ValidPair(Val(th[t].arg.channel), Val(th[t].arg.frame))) =>
              th[t].err = Some("IndexError")

-----------------------------------------------------------------------------
(* Properties of load and close, checked under Spec (one thread)             *)

EmptyStack ==
    /\ path = None /\ img = None /\ mode = None /\ order = None
    /\ width = 0 /\ height = 0
    /\ n_images = 0 /\ n_channels = 0 /\ n_frames = 0

\* C1: when a load fails, wherever it fails, every field of the Stack is at
\* its empty value when the error leaves load's with block and reaches the
\* caller.
C1_FailedLoadEmpty ==
    \A t \in Threads :
        (th[t].op = "load" /\ th[t].pc \in {"load_release", "ret"} /\ th[t].err # None)
            => EmptyStack

\* a page fails to decode after an earlier page was placed
C1_Witness ==
    /\ th[1].op = "load" /\ th[1].pc = "load_release"
    /\ th[1].err = Some("TiffFileError") /\ th[1].arg.bad_page = Some(1)
    /\ EmptyStack

\* A load has returned successfully and no close followed
Loaded == img # None /\ \A t \in Threads : th[t].pc \in {"idle", "ret"}

\* C6: in every state in which the Stack is loaded, n_images = n_channels *
\* n_frames, mode is 8 or 16 and order is 'tc' or 'ct'.
C6_LoadedInvariant ==
    Loaded => /\ n_images = n_channels * n_frames
              /\ mode \in {Some(8), Some(16)}
              /\ order \in {Some("tc"), Some("ct")}

ImageListeners == {n \in 1..Len(listeners) : listeners[n].kind \in {"image", "both"}}
Called(t, lid) == \E j \in 1..Len(th[t].log) : th[t].log[j] = lid

\* C7: when close() returns on a Stack that was loaded, the buffer and the
\* temporary file are released, every field is at its empty value and every
\* listener subscribed to image events has been called.
C7_CloseReleases ==
    \A t \in Threads :
        (th[t].op = "close" /\ th[t].pc = "ret" /\ th[t].arg.img # None)
            => /\ th[t].err = None
               /\ EmptyStack
               /\ tmpfile = None
               /\ Val(th[t].arg.img) \notin DOMAIN bufs
               /\ Val(th[t].arg.tmpfile) \notin tmp_open
               /\ \A n \in ImageListeners : Called(t, listeners[n].id)

C7_Witness ==
    /\ th[1].op = "close" /\ th[1].pc = "ret" /\ th[1].arg.img # None
    /\ ImageListeners # {}
    /\ EmptyStack /\ tmp_open = {}

\* C9: whenever a listener is called, the calling thread holds neither the
\* image lock nor the ROI lock.
C9_NotifyOutsideLocks ==
    \A t \in Threads :
        th[t].obs # None =>
            ~Val(th[t].obs).held_image /\ ~Val(th[t].obs).held_roi

-----------------------------------------------------------------------------
(* Properties of concurrent use, checked under SpecMT (two threads)          *)

EmptySnap(s) ==
    /\ s.path = None /\ s.img = None /\ s.mode = None /\ s.order = None
    /\ s.width = 0 /\ s.height = 0
    /\ s.n_images = 0 /\ s.n_channels = 0 /\ s.n_frames = 0

PagePixels(i, npix) == [k \in 1..npix |-> Pixel(i, k - 1)]

\* Every field is set and every page of the file is in its place
LoadedSnap(s) ==
    /\ s.path # None /\ s.img # None
    /\ s.mode \in {Some(8), Some(16)}
    /\ s.order \in {Some("tc"), Some("ct")}
    /\ s.width > 0 /\ s.height > 0
    /\ s.n_images > 0 /\ s.n_channels > 0 /\ s.n_frames > 0
    /\ Val(s.img).nc = s.n_channels /\ Val(s.img).nf = s.n_frames
    /\ \A i \in 0..(s.n_images - 1) :
          LET pos == ConvertPosition(s.order, s.n_channels, s.n_frames,
                                     None, None, Some(i))
          IN  /\ pos.tag = "ret"
              /\ pos.val \in DOMAIN Val(s.img).data
              /\ Val(s.img).data[pos.val] = PagePixels(i, NPix(s.width, s.height))

Settled(s) == EmptySnap(s) \/ LoadedSnap(s)

\* C2: what a thread reads through a property, get_image or
\* convert_position is the Stack before or after another thread's load:
\* empty or loaded with every field and page, never in between.
C2_NoPartialRead ==
    \A t \in Threads :
        (th[t].pc = "ret" /\ th[t].op \in {"property", "get_image", "convert_position"})
            => Settled(Val(th[t].snap))

\* a property is read while the other thread's load has all fields written
C2_Witness ==
    /\ th[1].op = "load" /\ th[1].pc = "ret" /\ th[1].err = None
    /\ th[2].op = "property" /\ th[2].pc = "ret" /\ th[2].arg = "n_frames"
    /\ LoadedSnap(Val(th[2].snap))

\* C8: get_image_copy racing close either returns the whole slice as it was
\* in the loaded Stack or fails; the copy never mixes in anything else.
C8_CopyNotTorn ==
    \A t \in Threads :
        (th[t].op = "get_image_copy" /\ th[t].pc \in {"copy_release", "ret"})
            => IF th[t].ret # None
               THEN /\ LoadedSnap(Val(th[t].snap))
                    /\ Val(th[t].ret) =
                         Val(Val(th[t].snap).img).data[<<th[t].i, th[t].k>>]
               ELSE th[t].err # None

\* the copy is complete while the other thread waits in close()
C8_Witness ==
    /\ th[1].op = "close" /\ th[1].pc = "close_lock"
    /\ th[2].op = "get_image_copy" /\ th[2].pc = "copy_release"
    /\ th[2].ret = Some(PagePixels(1, 2))

\* C10: a listener of image events called during a load or a close finds
\* the Stack either loaded with every field and page or empty.
C10_CallbackSeesFinal ==
    \A t \in Threads :
        (th[t].obs # None /\ th[t].op \in {"load", "close"}
            /\ Val(th[t].obs).kind \in {"image", "both"})
            => Settled(Val(th[t].obs).snap)

C10_Witness ==
    /\ th[1].op = "load" /\ th[1].pc = "notify" /\ th[1].obs # None
    /\ Val(th[1].obs).kind = "image"
    /\ LoadedSnap(Val(th[1].obs).snap)
    /\ th[2].op = "close" /\ th[2].pc = "close_lock"

-----------------------------------------------------------------------------
(* Notifications, checked under Spec                                         *)

RECURSIVE Count(_, _)
Count(log, lid) ==
    IF log = <<>> THEN 0
    ELSE (IF Head(log) = lid THEN 1 ELSE 0) + Count(Tail(log), lid)

\* The kind of event a mutating operation announces
EventKind(op) == IF op \in {"load", "close"} THEN "image" ELSE "roi"

\* C11: one mutating operation (a load that succeeds or fails, a close, a
\* set_rois, a clear_rois) calls every listener subscribed to its kind
\* exactly once, so N operations make N calls.
C11_OncePerMutation ==
    \A t \in Threads :
        (/\ th[t].pc = "ret"
         /\ th[t].op \in {"load", "close", "set_rois", "clear_rois"}
         /\ (th[t].op = "load" \/ th[t].err = None))
            => \A n \in 1..Len(listeners) :
                   listeners[n].kind \in {EventKind(th[t].op), "both"}
                       => Count(th[t].log, listeners[n].id) = 1

\* Listeners that receive ROI events, by id; ids grow in registration order
RoiListeners == {listeners[n].id : n \in {m \in 1..Len(listeners) :
                                           listeners[m].kind \in {"roi", "both"}}}

\* C12: a ROI mutation calls the listeners registered for ROI events once
\* each, in the order of their registration, and calls no listener that was
\* removed before the mutation.
C12_OrderAndRemoval ==
    \A t \in Threads :
        (/\ th[t].op \in {"set_rois", "clear_rois"}
         /\ th[t].pc \in {"roi_release", "ret"}
         /\ th[t].err = None)
            => /\ {th[t].log[j] : j \in 1..Len(th[t].log)} = RoiListeners
               /\ \A j, k \in 1..Len(th[t].log) :
                      j < k => th[t].log[j] < th[t].log[k]

\* L1 and L2 were registered, L1 was removed, the next set_rois called L2 only
C12_Witness ==
    /\ th[1].op = "set_rois" /\ th[1].pc = "ret" /\ th[1].err = None
    /\ next_lid = 3
    /\ Len(listeners) = 1 /\ listeners[1].id = 2 /\ listeners[1].kind = "roi"
    /\ th[1].log = <<2>>

-----------------------------------------------------------------------------
(* Lock domains                                                              *)

\* Thread a is inside load and holds the image lock
InsideLoad(a) == th[a].op = "load" /\ image_lock.owner = a

C14_Reentrant ==
    \A t \in Threads :
        image_lock.owner = t =>
            /\ th[t].pc = "cs_image" => ENABLED ClearImage(t)
            /\ th[t].pc = "load_fill" => ENABLED LoadFill(t)
            /\ th[t].pc = "tk_image" => ENABLED FrameTkImage(t)
            /\ (th[t].pc = "notify" /\ th[t].queue # <<>>) => ENABLED Callback(t)

\* get_frame_tk has returned an image through the nested get_image
C14_Witness ==
    /\ th[1].op = "get_frame_tk" /\ th[1].pc = "tk_release"
    /\ th[1].ret # None /\ image_lock = [owner |-> 1, count |-> 1]

-----------------------------------------------------------------------------
(* Metadata parsing, checked under SpecLoad and SpecParse                    *)

\* frames= and slices= both present with values above 1
Ambiguous(ij) ==
    /\ ij.frames # None /\ Val(ij.frames) > 1
    /\ ij.slices # None /\ Val(ij.slices) > 1

OrOne(m) == IF m = None THEN 1 ELSE Val(m)

\* C15: for every ImageJ description in which frames and slices are not
\* both above 1 (slices=1 included, alone or with frames > 1) the parser
\* succeeds with n_channels = channels or 1 and n_frames = frames or 1,
\* except that slices > 1 with frames absent or 1 gives n_frames = slices.
C15_ImageJParses ==
    [][\A t \in Threads :
          (/\ th[t].pc = "load_parse"
           /\ th[t].arg.dialect = "imagej"
           /\ ~Ambiguous(th[t].arg.ij)
           /\ th'[t].pc # "load_parse")
              => LET ij == th[t].arg.ij IN
                 /\ th'[t].pc = "load_alloc"
                 /\ n_channels' = OrOne(ij.channels)
                 /\ n_frames' = IF ij.slices # None /\ Val(ij.slices) > 1
                                   /\ OrOne(ij.frames) = 1
                                THEN Val(ij.slices)
                                ELSE OrOne(ij.frames)]_vars

\* load got as far as the dialect parser
ReachesParser(f) == f.openable /\ f.pages > 0 /\ f.bits \in {8, 16}

\* C16: an ImageJ description with frames > 1 and slices > 1 makes load fail
\* with the ambiguous-dimensions error (the ValueError of line 149), and the
\* Stack is empty afterwards.
C16_AmbiguousRejected ==
    \A t \in Threads :
        (/\ th[t].op = "load" /\ th[t].pc \in {"load_release", "ret"}
         /\ th[t].arg.dialect = "imagej"
         /\ ReachesParser(th[t].arg)
         /\ Ambiguous(th[t].arg.ij))
            => th[t].err = Some("ValueError") /\ EmptyStack

\* C17: a load of a file whose first page is neither 8 nor 16 bits deep never
\* reaches the dialect parser or the buffer allocation, ends with the
\* unsupported-depth error (TypeError, line 85), and leaves path = None and
\* n_images = 0.
C17_DepthRejected ==
    \A t \in Threads :
        (/\ th[t].op = "load"
         /\ th[t].arg.openable /\ th[t].arg.pages > 0
         /\ th[t].arg.bits \notin {8, 16})
            => /\ th[t].pc \notin {"load_parse", "load_alloc", "load_fill"}
               /\ th[t].pc \in {"load_release", "ret"}
                    => /\ th[t].err = Some("TypeError")
                       /\ path = None /\ n_images = 0
                       /\ img = None /\ tmpfile = None

\* a 12-bit file was rejected on a Stack holding an earlier, loaded file
C17_Witness ==
    /\ th[1].op = "load" /\ th[1].pc = "ret"
    /\ th[1].arg.bits = 12 /\ th[1].arg.pages > 0
    /\ th[1].err = Some("TypeError")
    /\ budget = 0 /\ tmp_made = 1
    /\ path = None /\ n_images = 0

\* Letter ch occurs in d; letter a occurs somewhere before letter b
Has(d, ch) == \E k \in 1..Len(d) : d[k] = ch
Before(d, a, b) == \E j, k \in 1..Len(d) : j < k /\ d[j] = a /\ d[k] = b

\* An OME description whose Size attributes pass, so that DimensionOrder
\* decides the outcome
SizesValid(ome) ==
    /\ ome.xml_ok /\ ome.has_image /\ ome.has_pixels
    /\ \A a \in {ome.SizeT, ome.SizeC, ome.SizeZ} :
           a # None /\ Val(a).lit /\ Val(a).n >= 1
    /\ Val(ome.SizeZ).n = 1

OmeLoad(t) ==
    th[t].op = "load" /\ th[t].arg.dialect = "ome" /\ ReachesParser(th[t].arg)

\* C18: a DimensionOrder with 'C' before 'T' gives order 'tc', one with 'T'
\* before 'C' gives 'ct', and one that lacks 'C' or 'T' makes the load fail;
\* order never takes a third value.
C18_OmeOrder ==
    /\ order \in {None, Some("tc"), Some("ct")}
    /\ \A t \in Threads :
         (OmeLoad(t) /\ SizesValid(th[t].arg.ome) /\ th[t].arg.ome.DimensionOrder # None)
            => LET d == Val(th[t].arg.ome.DimensionOrder) IN
               /\ th[t].pc \in {"load_alloc", "load_fill"}
                    => /\ Has(d, "C") /\ Has(d, "T")
                       /\ Before(d, "C", "T") => order = Some("tc")
                       /\ Before(d, "T", "C") => order = Some("ct")
               /\ (th[t].pc \in {"load_release", "ret"} /\ Has(d, "C") /\ Has(d, "T"))
                    => /\ th[t].err = None
                       /\ Before(d, "C", "T") => order = Some("tc")
                       /\ Before(d, "T", "C") => order = Some("ct")
               /\ (th[t].pc \in {"load_release", "ret"} /\ ~(Has(d, "C") /\ Has(d, "T")))
                    => th[t].err = Some("ValueError") /\ order = None

\* XYZTC was loaded as 'ct'
C18_Witness ==
    /\ OmeLoad(1) /\ th[1].pc = "ret" /\ th[1].err = None
    /\ th[1].arg.ome.DimensionOrder = Some(<<"X", "Y", "Z", "T", "C">>)
    /\ order = Some("ct")

\* All four attributes present and valid
ValidOme(ome) ==
    /\ SizesValid(ome)
    /\ ome.DimensionOrder # None
    /\ Has(Val(ome.DimensionOrder), "C") /\ Has(Val(ome.DimensionOrder), "T")

\* C19: the load of an OME file fails and leaves the Stack empty whenever
\* SizeT, SizeC, SizeZ or DimensionOrder is missing, a size is not an integer
\* or is below 1, or SizeZ is not 1; it succeeds, with n_frames = SizeT and
\* n_channels = SizeC, only when all four are present and valid.
C19_OmeValidation ==
    \A t \in Threads :
        (OmeLoad(t) /\ th[t].arg.ome.xml_ok /\ th[t].arg.ome.has_image
                    /\ th[t].arg.ome.has_pixels)
            => LET ome == th[t].arg.ome IN
               /\ th[t].pc \in {"load_alloc", "load_fill"} => ValidOme(ome)
               /\ th[t].pc \in {"load_release", "ret"}
                    => /\ th[t].err = None <=> ValidOme(ome)
                       /\ th[t].err # None => EmptyStack
                       /\ th[t].err = None
                            => /\ n_frames = Val(ome.SizeT).n
                               /\ n_channels = Val(ome.SizeC).n

\* two slices: rejected, the Stack is empty
C19_Witness ==
    /\ OmeLoad(1) /\ th[1].pc = "ret"
    /\ th[1].arg.ome.SizeT = Some(AttrInt(2)) /\ th[1].arg.ome.SizeC = Some(AttrInt(1))
    /\ th[1].arg.ome.SizeZ = Some(AttrInt(2))
    /\ th[1].arg.ome.DimensionOrder = Some(XYCZT)
    /\ th[1].err = Some("ValueError") /\ EmptyStack

-----------------------------------------------------------------------------
(* ROI map, checked under SpecRoi                                            *)

\* C20: a ROI set stored under the all-frames key is what get_rois(f)
\* returns for every frame f that has no ROI set of its own; a frame with
\* its own set gets that set.
C20_EllipsisIsDefault ==
    \A t \in Threads :
        (/\ th[t].op = "get_rois" /\ th[t].pc = "ret"
         /\ th[t].arg # None /\ ~Val(th[t].arg).all
         /\ Ellipsis \in DOMAIN rois)
            => th[t].ret = IF Val(th[t].arg) \in DOMAIN rois
                           THEN Some(rois[Val(th[t].arg)])
                           ELSE Some(rois[Ellipsis])

\* The label names no ROI of the set (a list also answers to negative
\* positions counted from its end)
LabelAbsent(rs, key) ==
    LET c == RoiContents(rs.roi_arr) IN
    IF c.kind = "list" THEN key \notin (-Len(c.items))..(Len(c.items) - 1)
    ELSE key \notin DOMAIN c.items

\* C21: looking up a label that is absent from a frame's RoiSet returns None
\* and raises nothing, whether the set was built from a list or from a
\* dictionary.
C21_AbsentLabelIsNone ==
    \A t \in Threads :
        (/\ th[t].op = "roi_getitem" /\ th[t].pc = "ret"
         /\ th[t].arg.frame \in DOMAIN rois
         /\ LabelAbsent(rois[th[t].arg.frame], th[t].arg.key))
            => th[t].err = None /\ th[t].ret = None

\* m2 is m1 except, at most, at key
SameExceptAt(m1, m2, key) ==
    /\ (DOMAIN m2) \ {key} = (DOMAIN m1) \ {key}
    /\ \A k \in (DOMAIN m1) \ {key} : m2[k] = m1[k]

\* The notification being started reaches exactly the ROI listeners
NotifiesRoi(fr) ==
    /\ fr.pc = "notify"
    /\ {fr.queue[j].id : j \in 1..Len(fr.queue)} = RoiListeners

\* C22: clear_rois(frame=f) on a frame that has a set removes that set and
\* no other, clear_rois() removes every set, set_rois(..., frame=f) replaces
\* the set of f and no other; each notifies the ROI listeners and leaves the
\* image fields unchanged.
C22_RoiFrameEffect ==
    [][\A t \in Threads :
          /\ (/\ th[t].pc = "cr_body" /\ th'[t].pc # "cr_body"
              /\ th[t].arg # None /\ Val(th[t].arg) \in DOMAIN rois)
                 => /\ Val(th[t].arg) \notin DOMAIN rois'
                    /\ SameExceptAt(rois, rois', Val(th[t].arg))
                    /\ NotifiesRoi(th'[t])
          /\ (th[t].pc = "cr_body" /\ th'[t].pc # "cr_body" /\ th[t].arg = None)
                 => rois' = NoRois /\ NotifiesRoi(th'[t])
          /\ (/\ th[t].pc = "sr_body" /\ th'[t].pc # "sr_body"
              /\ th[t].arg.type_ \in {"rect", "raw"})
                 => /\ th[t].arg.frame \in DOMAIN rois'
                    /\ rois'[th[t].arg.frame].roi_arr = th[t].arg.rois
                    /\ SameExceptAt(rois, rois', th[t].arg.frame)
                    /\ NotifiesRoi(th'[t])
          /\ th[t].op \in {"set_rois", "clear_rois"}
                 => <<path, img, mode, order, width, height, n_images,
                      n_frames, n_channels>>' =
                    <<path, img, mode, order, width, height, n_images,
                      n_frames, n_channels>>]_vars

\* on a loaded Stack, frame 0's set was removed and the default set stayed
C22_Witness ==
    /\ th[1].op = "clear_rois" /\ th[1].pc = "ret" /\ th[1].err = None
    /\ th[1].arg = Some(FrameKey(0))
    /\ DOMAIN rois = {Ellipsis}
    /\ img # None

\* C23: set_rois with a type other than 'rect' or 'raw' fails with an error,
\* leaves the ROI map as it was before the call and starts no notification.
C23_BadTypeRejected ==
    [][\A t \in Threads :
          (/\ th[t].op = "set_rois"
           /\ th[t].arg.type_ \notin {"rect", "raw"})
              => /\ rois' = rois
                 /\ th'[t].pc # "notify"
                 /\ th'[t].log = <<>>
                 /\ th'[t].pc \in {"roi_release", "ret", "idle"}
                      => (th'[t].op = "set_rois" => th'[t].err # None)]_vars

\* frame 0 keeps the set it had before the failed call
C23_Witness ==
    /\ th[1].op = "set_rois" /\ th[1].pc = "ret"
    /\ th[1].arg.type_ = "poly" /\ th[1].arg.frame = FrameKey(0)
    /\ th[1].arg.rois = "R2"
    /\ th[1].err # None
    /\ FrameKey(0) \in DOMAIN rois /\ rois[FrameKey(0)].roi_arr = "R1"
    /\ RoiListeners # {}

\* C24: every explicit frame key of the ROI map is a frame index below
\* n_frames, in every reachable state.
C24_RoiFramesInRange ==
    \A key \in DOMAIN rois : ~key.all => key.n < n_frames

-----------------------------------------------------------------------------
(* MetaStack, checked under SpecMeta                                         *)

\* C25: adding a channel of a Stack whose (width, height, n_frames) differ
\* from the geometry fixed by the first channel fails with
\* DimensionMismatch and leaves the MetaStack (its channel list and its
\* geometry) as it was before the call.
C25_MismatchLeavesMeta ==
    [][\A t \in Threads :
          (/\ th[t].pc = "om_channel"
           /\ th'[t].pc # "om_channel"
           /\ Val(th[t].meta).geometry # None
           /\ Val(th[t].meta).geometry
                # Some(Geometry(th[t].arg[th[t].i + 1].stack)))
              => /\ th'[t].err = Some("DimensionMismatch")
                 /\ Val(th'[t].meta).channels = Val(th[t].meta).channels
                 /\ Val(th'[t].meta).geometry = Val(th[t].meta).geometry]_vars

\* the second Stack is wider than the first: one channel, not two
C25_Witness ==
    /\ th[1].op = "open_metastack" /\ th[1].pc = "ret"
    /\ th[1].err = Some("DimensionMismatch")
    /\ Len(th[1].arg) = 2
    /\ th[1].arg[1].stack.width = 1 /\ th[1].arg[2].stack.width = 2
    /\ Len(Val(th[1].meta).channels) = 1
    /\ Val(th[1].meta).geometry = Some(Geometry(th[1].arg[1].stack))

-----------------------------------------------------------------------------
(* Resources and lifecycle                                                   *)

\* C26: when a load or a close has returned, no temporary file is open
\* other than the one the Stack refers to: a failed load, a close and a
\* reload each close the file an earlier load created.
C26_NoOpenTmpLeft ==
    \A t \in Threads :
        (th[t].op \in {"load", "close"} /\ th[t].pc = "ret")
            => \A id \in tmp_open : tmpfile = Some(id)

\* Thread t is at a step that needs the lock, and another thread holds it
WaitsForRoi(t) ==
    th[t].pc \in {"cs_roi", "sr_lock", "cr_lock"} /\ ~CanAcquire(roi_lock, t)
WaitsForImage(t) ==
    /\ \/ th[t].pc \in {"load_lock", "close_lock", "copy_lock", "cs_image"}
       \/ th[t].pc = "notify" /\ th[t].queue # <<>>
    /\ ~CanAcquire(image_lock, t)

\* C27: no reachable state has one thread holding the image lock and waiting
\* for the ROI lock while another holds the ROI lock and waits for the image
\* lock (property reads inside listener callbacks included), so every call
\* returns.
C27_NoLockCycle ==
    \A a, b \in Threads :
        ~(/\ image_lock.owner = a /\ WaitsForRoi(a)
          /\ roi_lock.owner = b /\ WaitsForImage(b))

\* C28: close() on an empty Stack (never loaded, already closed, or reset by
\* a failed load) raises no error and leaves the Stack empty.
C28_CloseOnEmpty ==
    \A t \in Threads :
        (th[t].op = "close" /\ th[t].pc = "ret" /\ th[t].arg.img = None)
            => th[t].err = None /\ EmptyStack

\* C29: the error that a failing load hands to its caller is the error that
\* made it fail: once raised, it is not replaced on the way out, also when
\* the file could not be opened.
C29_CauseReachesCaller ==
    [][\A t \in Threads :
          (th[t].op = "load" /\ th[t].err # None /\ th'[t].op = "load")
              => th'[t].err = th[t].err]_vars

\* C30: a load that fails on a Stack holding loaded data leaves the Stack
\* empty: path, dimensions and pixel buffer are gone, and the ROI map and
\* the info dictionary are cleared too.
C30_FailedReloadEmpties ==
    \A t \in Threads :
        (/\ th[t].op = "load" /\ th[t].pc \in {"load_release", "ret"}
         /\ th[t].err # None
         /\ Val(th[t].found).loaded)
            => /\ EmptyStack
               /\ tmpfile = None
               /\ DOMAIN bufs = {}
               /\ rois = NoRois
               /\ info = NoInfo

\* the Stack was loaded, had ROIs and info, and the reload failed
C30_Witness ==
    /\ th[1].op = "load" /\ th[1].pc = "ret" /\ th[1].err # None
    /\ th[1].found = Some([loaded |-> TRUE, rois |-> TRUE, info |-> TRUE])
    /\ EmptyStack /\ rois = NoRois /\ info = NoInfo


\* C31: clear_rois(frame=f) for a frame that has no ROI set of its own ends
\* without an error and leaves the ROI map as it was.
C31_ClearAbsentIsNoOp ==
    [][\A t \in Threads :
          (/\ th[t].pc = "cr_body"
           /\ th[t].arg # None
           /\ Val(th[t].arg) \notin DOMAIN rois
           /\ th'[t].pc # "cr_body")
              => (th'[t].err = None /\ rois' = rois)]_vars


-----------------------------------------------------------------------------
(* Traces of the main window, checked under SpecTrace                        *)

\* The ROIs of a trace, as (frame, label) pairs
TraceRois(name) == {<<fr, traces[name].roi[fr]>> : fr \in DOMAIN traces[name].roi}

\* val asks for the trace to be highlighted
AsksHighlight(name, val) == val = Some(TRUE) \/ (val = None /\ ~traces[name].highlight)

\* C32: highlighting a trace that is neither selected nor highlighted: with
\* update_select the trace ends selected and highlighted and the call
\* returns True; without update_select nothing changes, neither the trace's
\* highlight flag nor the colour and stroke width of its ROIs.
C32_HighlightUnselected ==
    [][\A name \in DOMAIN traces, val \in {None, Some(TRUE)} :
          (~traces[name].select /\ ~traces[name].highlight)
          => /\ HighlightTraceCall(<<name>>, val, TRUE)
                  => /\ traces'[name].select /\ traces'[name].highlight
                     /\ tk_ret' = Some(TRUE)
             /\ HighlightTraceCall(<<name>>, val, FALSE)
                  => /\ traces'[name].highlight = traces[name].highlight
                     /\ \A p \in TraceRois(name) :
                           /\ tk_rois'[p[1]][p[2]].color = tk_rois[p[1]][p[2]].color
                           /\ tk_rois'[p[1]][p[2]].stroke_width
                                  = tk_rois[p[1]][p[2]].stroke_width]_vars

\* The first half of C32 on its own
C32_SelectsFirst ==
    [][\A name \in DOMAIN traces, val \in {None, Some(TRUE)} :
          (/\ ~traces[name].select /\ ~traces[name].highlight
           /\ HighlightTraceCall(<<name>>, val, TRUE))
          => /\ traces'[name].select /\ traces'[name].highlight
             /\ tk_ret' = Some(TRUE)]_vars


\* The traces a select_trace call deselects: those of its arguments that end
\* the call unselected after having been selected
Deselected(trace) ==
    {name \in DOMAIN traces :
        /\ \E k \in DOMAIN trace : trace[k] = name
        /\ traces[name].select /\ ~traces'[name].select}

\* C33: select_trace with update_highlight=True leaves no trace it deselects
\* highlighted, whether it is given one trace or several; with
\* update_highlight=False no 'highlight' flag changes.
C33_DeselectUnhighlights ==
    [][\A trace \in TraceArgs, val \in {None, Some(TRUE), Some(FALSE)} :
          /\ SelectTraceCall(trace, val, TRUE)
                => \A name \in Deselected(trace) : ~traces'[name].highlight
          /\ SelectTraceCall(trace, val, FALSE)
                => \A name \in DOMAIN traces :
                       traces'[name].highlight = traces[name].highlight]_vars

\* C33 for calls with a single trace
C33_SingleTrace ==
    [][\A name \in DOMAIN traces, val \in {None, Some(TRUE), Some(FALSE)} :
          /\ SelectTraceCall(<<name>>, val, TRUE)
                => \A n \in Deselected(<<name>>) : ~traces'[n].highlight
          /\ SelectTraceCall(<<name>>, val, FALSE)
                => \A n \in DOMAIN traces :
                       traces'[n].highlight = traces[n].highlight]_vars


\* C34: for every trace and each of its ROIs the colour is the highlight
\* colour exactly when the trace is selected and highlighted, the selected
\* colour exactly when it is selected and not highlighted, and the
\* deselected colour exactly when it is not selected; and once the trace's
\* highlight has been assigned, the stroke width is the highlight width
\* exactly when the trace is highlighted.
C34_ColoursFollowFlags ==
    \A name \in DOMAIN traces : \A p \in TraceRois(name) :
        LET tr == traces[name]
            roi == tk_rois[p[1]][p[2]]
        IN  /\ roi.color = ROI_COLOR_HIGHLIGHT <=> (tr.select /\ tr.highlight)
            /\ roi.color = ROI_COLOR_SELECTED <=> (tr.select /\ ~tr.highlight)
            /\ roi.color = ROI_COLOR_DESELECTED <=> ~tr.select
            /\ name \in hl_changed
                  => (roi.stroke_width = Some(ROI_WIDTH_HIGHLIGHT) <=> tr.highlight)

\* A trace that was highlighted while deselected, then selected, next to a
\* trace that is selected and was never highlighted
C34_Witness ==
    /\ Len(traces) = MaxTraces
    /\ \E a \in DOMAIN traces, b \in DOMAIN traces :
          /\ a \in hl_changed /\ traces[a].select /\ traces[a].highlight
          /\ b \notin hl_changed /\ traces[b].select
          /\ \E c \in DOMAIN traces :
                c \in hl_changed /\ ~traces[c].select /\ traces[c].highlight


Highlighted == {name \in DOMAIN traces : traces[name].highlight}

\* The trace that follows (by = 1) or precedes (by = -1) a trace in the
\* position-sorted order of the displayed frame, around the ends
Neighbour(name, by) ==
    LET cells_sorted == TracesSorted(TkState, i_frame)
        k == CHOOSE j \in DOMAIN cells_sorted : cells_sorted[j] = name
    IN  cells_sorted[((k - 1 + by + Len(cells_sorted)) % Len(cells_sorted)) + 1]

\* A step of the key handler. It returns nothing, scrolls no frame, keeps
\* the traces that are there and forgets no highlight it assigned; this is
\* stated first because it is quick to evaluate.
KeyStep(keysym) ==
    /\ tk_ret' = None /\ i_frame' = i_frame
    /\ Len(traces') = Len(traces) /\ hl_changed \subseteq hl_changed'
    /\ KeyHighlightCell(keysym)

\* C35: with at least one trace, an Up or Down key leaves exactly one trace
\* highlighted whatever was highlighted before; after one highlighted trace
\* Down highlights the next in position-sorted order and Up the previous
\* one, around the ends; with nothing highlighted Down picks the first and
\* Up the last. Enter toggles the selection of exactly the highlighted
\* traces.
C35_KeysMoveHighlight ==
    [][/\ \A keysym \in {"Up", "Down"} :
             KeyStep(keysym)
             => LET cells_sorted == TracesSorted(TkState, i_frame)
                    by == IF keysym = "Down" THEN 1 ELSE -1
                IN  /\ Cardinality(Highlighted') = 1
                    /\ \A name \in DOMAIN traces :
                          Highlighted = {name} => Highlighted' = {Neighbour(name, by)}
                    /\ Highlighted = {}
                          => Highlighted' = {IF keysym = "Down" THEN cells_sorted[1]
                                             ELSE cells_sorted[Len(cells_sorted)]}
       /\ KeyStep("Return")
             => /\ Highlighted' = Highlighted
                /\ \A name \in DOMAIN traces :
                      traces'[name].select
                          = IF name \in Highlighted THEN ~traces[name].select
                            ELSE traces[name].select]_vars

\* A Down key has moved the highlight from the last trace of the sorted
\* order, which is not the last of the dictionary, to the first, and an
\* Enter has deselected a highlighted trace
C35_Witness ==
    /\ Len(traces) = MaxTraces
    /\ i_frame = 0
    /\ LET cells_sorted == TracesSorted(TkState, i_frame) IN
       /\ cells_sorted[Len(cells_sorted)] # Len(traces)
       /\ Highlighted = {cells_sorted[1]}
       /\ cells_sorted[Len(cells_sorted)] \in hl_changed
       /\ ~traces[cells_sorted[1]].select


-----------------------------------------------------------------------------
(* Display settings of the main window, checked under SpecShow               *)

\* C38: whatever toggles of "Display cell contours" and "Display untracked
\* cells" have happened, a ROI with a name is visible exactly when contours
\* are shown, and a ROI without a name exactly when contours and untracked
\* cells are both shown; with contours off no ROI is visible.
C38_VisibleFollowsSettings ==
    \A fr \in DOMAIN tk_rois : \A l \in DOMAIN tk_rois[fr] :
        tk_rois[fr][l].visible
            = IF tk_rois[fr][l].name # 0 THEN var_show_roi_contours
              ELSE var_show_roi_contours /\ var_show_untrackable


-----------------------------------------------------------------------------
(* Channel buttons of the main window, checked under SpecChan                *)

Displayed == {k \in DOMAIN channel_selection : channel_selection[k].val}

\* C36: with at least one channel button, a click on button i, with or
\* without the control key, and a Right or Left key each end without an
\* error and with at least one channel displayed; and when the click would
\* have left nothing displayed (the control key takes away the only
\* displayed channel), the channel displayed afterwards is the clicked one,
\* whatever channel_order is.
C36_DefaultIsClicked ==
    [][DOMAIN channel_selection # {}
       => /\ \A i \in DOMAIN channel_selection, ctrl \in BOOLEAN :
                ChanselClick(i, ctrl)
                => /\ tk_err' = None
                   /\ Displayed' # {}
                   /\ (ctrl /\ Displayed = {i}) => Displayed' = {i}
          /\ \A keysym \in {"Right", "Left"} :
                KeyScrollChannels(keysym) => (tk_err' = None /\ Displayed' # {})]_vars


\* The channels displayed after each of n presses of a key, starting from
\* the selection sel
RECURSIVE Scrolled(_, _, _)
Scrolled(sel, keysym, n) ==
    IF n = 0 THEN <<>>
    ELSE LET next == KeyScrollResult(sel, channel_order, keysym).sel
         IN  <<{k \in DOMAIN next : next[k].val}>> \o Scrolled(next, keysym, n - 1)

\* C37: with one channel displayed, len(channel_order) presses of Right
\* display every channel that has a button exactly once and end at the
\* channel they started from, and so do presses of Left, for every
\* metastack that was loaded and shows a button for each of its keys.
C37_ScrollReachesAll ==
    (/\ tk_err = None /\ channel_order # <<>>
     /\ DOMAIN channel_selection = {channel_order[n] : n \in DOMAIN channel_order})
    => \A start \in DOMAIN channel_selection, keysym \in {"Right", "Left"} :
          LET only == [k \in DOMAIN channel_selection |->
                          [channel_selection[k] EXCEPT !.val = (k = start)]]
              seen == Scrolled(only, keysym, Len(channel_order))
          IN  /\ \A n \in DOMAIN seen : Cardinality(seen[n]) = 1
              /\ UNION {seen[n] : n \in DOMAIN seen} = DOMAIN channel_selection
              /\ seen[Len(seen)] = {start}


-----------------------------------------------------------------------------
(* The dialog that opens Stacks                                              *)

\* The Stacks of the list the callback was called with
UsedByCallback ==
    IF op_cb = None \/ Val(op_cb) = None THEN {}
    ELSE {Val(Val(op_cb))[n].stack.path : n \in DOMAIN Val(Val(op_cb))}

\* C39: StackOpener neither leaks nor double-closes a Stack. While the dialog
\* is open, the Stacks in its list are open, the removed ones were closed
\* once and every channel refers to a Stack of the list; once the callback
\* was called, every Stack the dialog opened is either used by a channel of
\* the list given to the callback and never closed, or closed exactly once;
\* after cancel (callback(None)) all are closed once.
C39_NoLeakNoDoubleClose ==
    LET listed == {op_stacks[n].path : n \in DOMAIN op_stacks}
    IN
    /\ \A p \in DOMAIN stack_closes : stack_closes[p] <= 1
    /\ op_cb = None =>
          /\ \A p \in DOMAIN stack_closes : stack_closes[p] = IF p \in listed THEN 0 ELSE 1
          /\ \A n \in DOMAIN op_channels : op_channels[n].stack.path \in listed
    /\ op_cb # None =>
          \A p \in DOMAIN stack_closes :
              stack_closes[p] = IF p \in UsedByCallback THEN 0 ELSE 1

\* OK was pressed with a channel of one Stack while another Stack was unused
C39_Witness ==
    /\ op_cb # None /\ Val(op_cb) # None
    /\ UsedByCallback # {}
    /\ \E p \in DOMAIN stack_closes : p \notin UsedByCallback /\ stack_closes[p] = 1

\* A Stack was removed, then the dialog was cancelled while a channel of the
\* other Stack was chosen
C39_WitnessCancel ==
    /\ op_cb = Some(None)
    /\ Len(op_stacks) = 1
    /\ Cardinality(DOMAIN stack_closes) = 2
    /\ op_channels # << >>


\* C40: when open_metastack has processed all entries, no channel of the
\* MetaStack refers to a Stack on which close() has been called.
C40_NoChannelOfClosedStack ==
    \A t \in Threads :
        (/\ th[t].op = "open_metastack" /\ th[t].pc = "ret"
         /\ th[t].err = None /\ th[t].meta # None)
        => \A n \in DOMAIN Val(th[t].meta).channels :
              ~Closed(MetaLookup(Val(th[t].meta), Val(th[t].meta).channels[n].name))

====
